---- MODULE Spec2Model ----
(***************************************************************************)
(* voice2md: the processing ledger (state.py) and the per-file pipeline   *)
(* (pipeline.py, archive.py, markdown.py), run by one or more processes   *)
(* against the same ledger, topic documents, inbox and archive.            *)
(*                                                                         *)
(* Every ledger call is one sqlite transaction and every file-system call  *)
(* is one step; a process can be pre-empted or killed between any two.     *)
(***************************************************************************)
EXTENDS Integers, Sequences, FiniteSets, TLC

\* ---------------------------------------------------------------- bounds
\* cfg.processing.in_progress_ttl_seconds, in clock ticks
LeaseTtl == 1
\* the wall clock runs from 0 to MaxTime
MaxTime == LeaseTtl + 2
\* process_audio_file invocations per behaviour
MaxRuns == 2
\* numeric suffixes plan_archive_path tries (range(1, 1000) in the source)
MaxSuffix == 1

\* ---------------------------------------------------------------- universe
Procs == {"w1", "w2"}
ContentIds == {"h1", "h2"}
Paths == {"a", "b", "c"}
\* the two inbox files that hold the same bytes
Copies == {"a", "b"}
Topics == {"T1", "T2"}
Names == {"n1", "n2"}

Null == "NULL"
NullT == -1
NoPath == <<>>

\* the bytes first found under each inbox path ("a" and "b" are copies)
FirstBytes(path) == IF path = "c" THEN "h2" ELSE "h1"

\* Path.name: "c" sits in another inbox subdirectory under the name of "a"
BaseName(path) == IF path = "b" THEN "n2" ELSE "n1"

\* ---------------------------------------------------------------- ledger
NoRow ==
  [status |-> "absent", started_at |-> NullT, processed_at |-> NullT,
   source_path |-> Null, source_mtime_ns |-> NullT, source_size |-> NullT,
   archive_path |-> NoPath, topic_file |-> Null, codex_status |-> Null,
   error |-> Null]

\* COALESCE(excluded.x, x)
Coalesce(new, old, nul) == IF new # nul THEN new ELSE old

get(L, sha) == L[sha]

\* faulty variant: the status is compared with a word the ledger never stores
is_processed_typo(L, sha) ==
  get(L, sha).status # "absent" /\ get(L, sha).status = "done"

is_processed(L, sha) ==
  get(L, sha).status # "absent" /\ get(L, sha).status = "processed"

\* faulty variant: the lease counts as expired at the TTL itself
allow_retry_at_ttl(L, sha, ttl_seconds, t) ==
  LET rec == get(L, sha) IN
  IF rec.status = "absent" THEN TRUE
  ELSE IF rec.status = "processed" THEN FALSE
  ELSE IF rec.status # "in_progress" THEN TRUE
  ELSE IF rec.started_at = NullT THEN TRUE
  ELSE (t - rec.started_at) >= ttl_seconds

allow_retry_in_progress(L, sha, ttl_seconds, t) ==
  LET rec == get(L, sha) IN
  IF rec.status = "absent" THEN TRUE
  ELSE IF rec.status = "processed" THEN FALSE
  ELSE IF rec.status # "in_progress" THEN TRUE
  ELSE IF rec.started_at = NullT THEN TRUE
  ELSE (t - rec.started_at) > ttl_seconds

\* faulty variant: the upsert leaves started_at of an existing row as it was
mark_in_progress_stale(L, sha, source_path, mtime_ns, size, force, t) ==
  LET ins == [NoRow EXCEPT !.status = "in_progress", !.started_at = t,
                           !.source_path = source_path,
                           !.source_mtime_ns = mtime_ns,
                           !.source_size = size]
  IN IF L[sha].status = "absent" THEN [L EXCEPT ![sha] = ins]
     ELSE IF force
       THEN [L EXCEPT ![sha] = [@ EXCEPT !.status = "in_progress",
                                        !.source_path = source_path,
                                        !.source_mtime_ns = mtime_ns,
                                        !.source_size = size,
                                        !.error = Null]]
       ELSE L

\* faulty variant: the forced upsert leaves the error column alone
mark_in_progress_keeps_error(L, sha, source_path, mtime_ns, size, force, t) ==
  LET ins == [NoRow EXCEPT !.status = "in_progress", !.started_at = t,
                           !.source_path = source_path,
                           !.source_mtime_ns = mtime_ns,
                           !.source_size = size]
  IN IF L[sha].status = "absent" THEN [L EXCEPT ![sha] = ins]
     ELSE IF force
       THEN [L EXCEPT ![sha] = [@ EXCEPT !.status = "in_progress",
                                        !.started_at = t,
                                        !.source_path = source_path,
                                        !.source_mtime_ns = mtime_ns,
                                        !.source_size = size]]
       ELSE L

mark_in_progress(L, sha, source_path, mtime_ns, size, force, t) ==
  LET ins == [NoRow EXCEPT !.status = "in_progress", !.started_at = t,
                           !.source_path = source_path,
                           !.source_mtime_ns = mtime_ns,
                           !.source_size = size]
  IN IF L[sha].status = "absent" THEN [L EXCEPT ![sha] = ins]
     ELSE IF force
       THEN [L EXCEPT ![sha] = [@ EXCEPT !.status = "in_progress",
                                        !.started_at = t,
                                        !.source_path = source_path,
                                        !.source_mtime_ns = mtime_ns,
                                        !.source_size = size,
                                        !.error = Null]]
       ELSE L

mark_processed(L, sha, archive_path, topic_file, codex_status, source_path, mtime_ns, size, t) ==
  LET ins == [NoRow EXCEPT !.status = "processed", !.processed_at = t,
                           !.source_path = source_path,
                           !.source_mtime_ns = mtime_ns,
                           !.source_size = size,
                           !.archive_path = archive_path,
                           !.topic_file = topic_file,
                           !.codex_status = codex_status]
  IN IF L[sha].status = "absent" THEN [L EXCEPT ![sha] = ins]
     ELSE [L EXCEPT ![sha] =
             [@ EXCEPT !.status = "processed",
                       !.processed_at = t,
                       !.source_path = Coalesce(source_path, @, Null),
                       !.source_mtime_ns = Coalesce(mtime_ns, @, NullT),
                       !.source_size = Coalesce(size, @, NullT),
                       !.archive_path = archive_path,
                       !.topic_file = topic_file,
                       !.codex_status = codex_status,
                       !.error = Null]]

mark_failed(L, sha, error, t) ==
  LET ins == [NoRow EXCEPT !.status = "failed", !.processed_at = t,
                           !.error = error]
  IN IF L[sha].status = "absent" THEN [L EXCEPT ![sha] = ins]
     ELSE [L EXCEPT ![sha] = [@ EXCEPT !.status = "failed",
                                      !.processed_at = t,
                                      !.error = error]]


\* ---------------------------------------------------------------- router
\* TranscriptionResult.text of a successful transform of the given bytes
Transcript(sha) == IF sha = "h1" THEN "about T1" ELSE "about T2"

\* the topic after the first YYYY-MM-DD of the file name, if any
filename_hints(path) == IF path = "b" THEN "T2" ELSE Null

infer_topic(transcript) == IF transcript = "about T1" THEN "T1" ELSE "T2"

\* RouteDecision.topic: the file name hint first, the transcript second
decide_route(path, transcript) ==
  IF filename_hints(path) # Null THEN filename_hints(path)
  ELSE infer_topic(transcript)

\* the calls of decide_route, by what its parsers find: fn_topic is the
\* topic filename_hints reads after the date of the file name, explicit the
\* TOPIC token tokens_from_transcript reads, phrase the topic infer_topic
\* draws from the other words of the transcript, each Null when there is
\* none; dumped_at is the argument of that name
RouteCalls ==
  [fn_topic : Topics \cup {Null}, explicit : Topics \cup {Null},
   phrase : Topics \cup {Null}, dumped_at : {NullT, 0}]

\* router.py:227-273: the TOPIC token, else a phrase or the frequent words,
\* else "Voice Note", with the date if one is given
infer_topic_of(c) ==
  IF c.explicit # Null THEN c.explicit
  ELSE IF c.phrase # Null THEN c.phrase
  ELSE IF c.dumped_at # NullT THEN "Voice Note 0"
  ELSE "Voice Note"

\* router.py:276-306: RouteDecision.topic and RouteDecision.topic_source
RouteDecision(c) ==
  IF c.fn_topic # Null
    THEN [topic |-> c.fn_topic, topic_source |-> "filename"]
    ELSE [topic |-> infer_topic_of(c),
          topic_source |-> IF c.explicit = Null THEN "inferred" ELSE "transcript"]

\* ---------------------------------------------------------------- markdown
NoFile == [exists |-> FALSE, body |-> <<>>]

\* the section's marker line <!-- voice2md:sha256=... -->
voice_dump_marker(sha) == sha

format_voice_dump_section(sha) ==
  [kind |-> "Voice Dump", marker |-> voice_dump_marker(sha)]

Commentary(text) == [kind |-> "AI Commentary", marker |-> text]

\* faulty variant: the marker is built from the wrong argument
notebook_contains_topic(D, topic, sha) ==
  IF ~D[topic].exists THEN FALSE
  ELSE \E i \in 1..Len(D[topic].body) :
         D[topic].body[i].marker = voice_dump_marker(topic)

notebook_contains_sha256(D, topic, sha) ==
  IF ~D[topic].exists THEN FALSE
  ELSE \E i \in 1..Len(D[topic].body) :
         D[topic].body[i].marker = voice_dump_marker(sha)

\* writes "# title" when the file is missing; the second component is the
\* returned `created`
ensure_topic_file(D, topic) ==
  IF D[topic].exists THEN <<D, FALSE>>
  ELSE <<[D EXCEPT ![topic] = [exists |-> TRUE, body |-> <<>>]], TRUE>>

\* markdown.py:28: Path.write_text of the title, over what the file holds
write_title(D, topic) == [D EXCEPT ![topic] = [exists |-> TRUE, body |-> <<>>]]

\* faulty variant: the file opened in write mode
append_block_truncating(D, topic, block, include_separator) ==
  [D EXCEPT ![topic] =
     [exists |-> TRUE,
      body |-> <<[kind |-> block.kind, marker |-> block.marker,
                  sep |-> include_separator /\ @.exists]>>]]

\* the block goes to the end of the file (opened in append mode, which
\* creates it when missing); the separator rule goes with every block
append_block(D, topic, block, include_separator) ==
  [D EXCEPT ![topic] =
     [exists |-> TRUE,
      body |-> Append(@.body, [kind |-> block.kind, marker |-> block.marker,
                               sep |-> include_separator /\ @.exists])]]

\* ---------------------------------------------------------------- archive
\* cfg.audio, as config.py:238 sets it when config.yaml has no audio
\* section; process_audio_file reads neither flag
archive_copy_enabled == FALSE
delete_original_after_archive == FALSE

Slots == 0..MaxSuffix

\* slot 0 is <name>, slot i is <stem>__i<suffix>; when every candidate
\* exists the planned path stays <name>
plan_archive_path(A, name) ==
  IF A[name][0] = Null THEN 0
  ELSE IF \E i \in 1..MaxSuffix : A[name][i] = Null
    THEN CHOOSE i \in 1..MaxSuffix :
           A[name][i] = Null /\ \A j \in 1..(i - 1) : A[name][j] # Null
    ELSE 0

\* the archive after ensure_archived_copy returned dest_path
ensure_archived_copy(A, name, slot, sha) ==
  IF A[name][slot] # Null THEN A
  ELSE [A EXCEPT ![name][slot] = sha]

\* Path.unlink(missing_ok=True)
finalize_archived_move(I, path) == [I EXCEPT ![path] = FALSE]


\* ---------------------------------------------------------------- watcher
\* no key in Watcher._processed_sources
NoSnap == <<>>

\* (st_mtime_ns, st_size) of the files the model drops into the inbox
Stats == {<<1, 1>>, <<2, 1>>, <<3, 2>>}

\* st_mtime, the float that _mtime_or_zero sorts by: nearby st_mtime_ns
\* values round to the same float
NsPerMtime == 2
st_mtime(st) == st[1] \div NsPerMtime

\* the processed rows whose source_path is f
ProcessedAt(L, f) ==
  {c \in ContentIds : L[c].status = "processed" /\ L[c].source_path = f}

\* faulty variant: the row with the earliest processed_at gives the entry
processed_source_snapshots_oldest(L) ==
  [f \in Paths |->
     IF ProcessedAt(L, f) = {} THEN NoSnap
     ELSE LET c == CHOOSE c \in ProcessedAt(L, f) :
                     \A d \in ProcessedAt(L, f) : L[c].processed_at <= L[d].processed_at
          IN <<L[c].source_mtime_ns, L[c].source_size>>]

\* state.py:124-144: for each source_path of a processed row, the
\* (source_mtime_ns, source_size) of the row with the latest processed_at
processed_source_snapshots(L) ==
  [f \in Paths |->
     IF ProcessedAt(L, f) = {} THEN NoSnap
     ELSE LET c == CHOOSE c \in ProcessedAt(L, f) :
                     \A d \in ProcessedAt(L, f) : L[c].processed_at >= L[d].processed_at
          IN <<L[c].source_mtime_ns, L[c].source_size>>]

\* faulty variant: the mtime is compared with the size and the size with
\* the mtime
PreFilterDrops_crossed(S, f, st) ==
  /\ S[f] # NoSnap
  /\ \/ S[f][1] = NullT \/ S[f][2] = NullT
     \/ (st[1] = S[f][2] /\ st[2] = S[f][1])

\* watcher.py:75-94: TRUE when the pre-filter of run_once drops the
\* candidate at path f
PreFilterDrops(S, f, st) ==
  /\ S[f] # NoSnap
  /\ \/ S[f][1] = NullT \/ S[f][2] = NullT
     \/ (st[1] = S[f][1] /\ st[2] = S[f][2])

\* ---------------------------------------------------------------- stable
\* processing.stable_seconds
StableSeconds == 1

\* a path the tracker does not track
NoSeen == <<>>

\* StableFileTracker after observe(candidates): per tracked path the size
\* and mtime first seen and the time since; a path not listed is dropped, a
\* new or changed one starts its timer
Observed(T, candidates, st) ==
  [f \in Paths |->
     IF f \notin candidates THEN NoSeen
     ELSE IF T[f] = NoSeen \/ <<T[f][1], T[f][2]>> # st[f]
       THEN <<st[f][1], st[f][2], 0>>
       ELSE T[f]]

\* faulty variant: a changed file keeps its timer
observe_ignoring_change(T, candidates, st, stable_seconds) ==
  {f \in candidates : T[f] # NoSeen /\ T[f][3] >= stable_seconds}

\* StableFileTracker.observe(candidates): the candidates seen before with
\* the size and mtime they have now, for at least stable_seconds
observe(T, candidates, st, stable_seconds) ==
  {f \in candidates :
     /\ T[f] # NoSeen
     /\ <<T[f][1], T[f][2]>> = st[f]
     /\ T[f][3] >= stable_seconds}

\* StableFileTracker.forget(path)
forget(T, path) == [T EXCEPT ![path] = NoSeen]

\* one unit of time passes for every timer; a timer past stable_seconds
\* need not count on
Elapse(T) ==
  [f \in Paths |->
     IF T[f] = NoSeen \/ T[f][3] >= StableSeconds THEN T[f]
     ELSE <<T[f][1], T[f][2], T[f][3] + 1>>]

\* faulty variant: the list is left in the order observe gave
SortedByMtime_unsorted(S, st) ==
  {q \in [1..Cardinality(S) -> S] : \A i, j \in 1..Cardinality(S) : q[i] = q[j] => i = j}

\* watcher.py:99-105: stable.sort(key=_mtime_or_zero); the order of files
\* of equal st_mtime is the order observe gave, which is any
SortedByMtime(S, st) ==
  {q \in [1..Cardinality(S) -> S] :
     /\ \A i, j \in 1..Cardinality(S) : q[i] = q[j] => i = j
     /\ \A i, j \in 1..Cardinality(S) :
          i < j => st_mtime(st[q[i]]) <= st_mtime(st[q[j]])}

\* ---------------------------------------------------------------- codex
\* the longest text of an output file
MaxText == 2

\* the texts of an output file: spaces and other characters
Texts == UNION {[1..n -> {" ", "x"}] : n \in 0..MaxText}

\* no output file
NoOutput == <<"missing">>

\* str.strip
RECURSIVE lstrip(_)
lstrip(text) ==
  IF text # <<>> /\ Head(text) = " " THEN lstrip(Tail(text)) ELSE text

RECURSIVE rstrip(_)
rstrip(text) ==
  IF text # <<>> /\ text[Len(text)] = " "
    THEN rstrip(SubSeq(text, 1, Len(text) - 1)) ELSE text

strip(text) == rstrip(lstrip(text))

CodexError == [kind |-> "CodexError", markdown |-> <<>>]
CodexResult(text) == [kind |-> "CodexResult", markdown |-> text]

\* what subprocess.run does: the command is not found, another OSError,
\* the timeout, a non-zero exit, a zero exit
Subprocess == {"FileNotFoundError", "OSError", "TimeoutExpired", "CalledProcessError", "ok"}

\* the calls of run_codex: the configuration, what the subprocess does and
\* the output file it leaves
CodexCalls ==
  [enabled : BOOLEAN, command : {<<>>, <<"codex">>}, run : Subprocess,
   out : Texts \cup {NoOutput}]

\* no call
NoCall == [kind |-> "none", markdown |-> <<>>]

\* faulty variant: a timeout is an error whatever the output file holds
run_codex_timeout_fails(c) ==
  IF ~c.enabled \/ c.command = <<>> THEN CodexError
  ELSE CASE c.run = "FileNotFoundError" -> CodexError
         [] c.run = "OSError" -> [kind |-> "OSError", markdown |-> <<>>]
         [] c.run = "TimeoutExpired" -> CodexError
         [] c.run = "CalledProcessError" -> CodexError
         [] OTHER ->
              LET text == IF c.out # NoOutput THEN strip(c.out) ELSE <<>>
              IN IF text = <<>> THEN CodexError ELSE CodexResult(text)

\* codex_runner.py:107-161
run_codex(c) ==
  IF ~c.enabled \/ c.command = <<>> THEN CodexError
  ELSE CASE c.run = "FileNotFoundError" -> CodexError
         [] c.run = "OSError" -> [kind |-> "OSError", markdown |-> <<>>]
         [] c.run = "TimeoutExpired" ->
              IF c.out # NoOutput /\ strip(c.out) # <<>>
                THEN CodexResult(strip(c.out)) ELSE CodexError
         [] c.run = "CalledProcessError" -> CodexError
         [] OTHER ->
              LET text == IF c.out # NoOutput THEN strip(c.out) ELSE <<>>
              IN IF text = <<>> THEN CodexError ELSE CodexResult(text)

\* ------------------------------------------------------- extract_context
MaxSections == 2
MaxChars == 10

\* len("\n\n---\n\n")
sep_len == 7

\* config.py:270-272, the defaults of codex.context_*
context_voice_dumps == 3
context_ai_commentaries == 1
context_max_chars == 20000

\* markdown.py:149-158: the matches of _SECTION_RE cut the text into
\* sections, each a kind and its stripped text (`chars` is its length). A
\* block that append_block wrote is one section
read_sections(D, topic) ==
  IF ~D[topic].exists THEN <<>>
  ELSE [i \in 1..Len(D[topic].body) |->
          [kind |-> D[topic].body[i].kind, marker |-> D[topic].body[i].marker,
           chars |-> MaxText]]

\* markdown.py:166-182, the loop over reversed(sections) from section i
\* down; `sel` holds the indexes selected so far, in document order
RECURSIVE select_sections(_, _, _, _, _, _, _, _)
select_sections(S, i, remaining_voice, remaining_ai, total, skipped_voice, sel, cfg) ==
  IF i = 0 THEN sel
  ELSE
    LET kind == S[i].kind
        block_len == S[i].chars + (IF sel # <<>> THEN sep_len ELSE 0)
        rv == IF kind = "Voice Dump" THEN remaining_voice - 1 ELSE remaining_voice
        ra == IF kind = "Voice Dump" THEN remaining_ai ELSE remaining_ai - 1
    IN IF kind = "Voice Dump" /\ cfg.skip_latest_voice_dump /\ ~skipped_voice
         THEN select_sections(S, i - 1, remaining_voice, remaining_ai, total, TRUE, sel, cfg)
       ELSE IF kind = "Voice Dump" /\ remaining_voice <= 0
         THEN select_sections(S, i - 1, remaining_voice, remaining_ai, total, skipped_voice, sel, cfg)
       ELSE IF kind = "AI Commentary" /\ remaining_ai <= 0
         THEN select_sections(S, i - 1, remaining_voice, remaining_ai, total, skipped_voice, sel, cfg)
       ELSE IF sel # <<>> /\ total + block_len > cfg.max_chars
         THEN sel
       ELSE IF rv <= 0 /\ ra <= 0
         THEN <<i>> \o sel
       ELSE select_sections(S, i - 1, rv, ra, total + block_len, skipped_voice, <<i>> \o sel, cfg)

\* len("\n\n---\n\n".join(selected)) of the sections S[sel[1]], S[sel[2]], ...
RECURSIVE joined_len(_, _)
joined_len(S, sel) ==
  IF sel = <<>> THEN 0
  ELSE IF Len(sel) = 1 THEN S[sel[1]].chars
  ELSE S[sel[1]].chars + sep_len + joined_len(S, Tail(sel))

\* markdown.py:131-185: the sections of NotebookContext.markdown and its
\* length
extract_context(S, voice_dumps, ai_commentaries, max_chars, skip_latest_voice_dump) ==
  LET sel == select_sections(S, Len(S), voice_dumps, ai_commentaries, 0, FALSE, <<>>,
                             [max_chars |-> max_chars,
                              skip_latest_voice_dump |-> skip_latest_voice_dump])
  IN [kind |-> "context",
      markdown |-> [j \in 1..Len(sel) |-> S[sel[j]]],
      chars |-> joined_len(S, sel)]

\* the documents extract_context may be given
SectionTexts ==
  UNION {[1..n -> [kind : {"Voice Dump", "AI Commentary"}, chars : 1..MaxText]] :
           n \in 0..MaxSections}

\* any call of extract_context
ContextCalls ==
  [kind : {"extract_context"}, sections : SectionTexts,
   voice_dumps : 0..MaxSections, ai_commentaries : 0..1,
   max_chars : 0..MaxChars, skip_latest_voice_dump : BOOLEAN]

\* ---------------------------------------------------------- rerun-codex
\* the heading lines, by their bytes: markdown.py:9 and pipeline.py:151-152
\* have the em dash U+2014, cli.py:99-100 has the six bytes C3 A2 E2 82 AC
\* E2 80 9D in its place
VoiceHeader == "## Voice Dump U+2014"
AiHeader == "## AI Commentary U+2014"
AiHeaderCli == "## AI Commentary U+00E2 U+20AC U+201D"

\* result.markdown.strip() of a run_codex that returned, line by line: with
\* the heading the prompt asks for, or without
CodexOutputs == {<<AiHeader, "text">>, <<"text">>}

\* run_codex raised CodexError: no text
CodexFailed == <<>>

\* cli.py:98-100: the heading is put before a commentary that does not
\* start with it
rerun_commentary(commentary) ==
  IF Head(commentary) = AiHeaderCli THEN commentary
  ELSE <<AiHeaderCli, "">> \o commentary

\* markdown.py:9: the kind of the first line of the block that _SECTION_RE
\* matches, "none" when no line does
RECURSIVE section_kind(_)
section_kind(lines) ==
  IF lines = <<>> THEN "none"
  ELSE IF Head(lines) = VoiceHeader THEN "Voice Dump"
  ELSE IF Head(lines) = AiHeader THEN "AI Commentary"
  ELSE section_kind(Tail(lines))

\* markdown.py:109-128: a section runs from a matched heading to the next
\* one, so a block without a heading belongs to the section before it;
\* latest_ai_commentary is given as the markers of the blocks it holds
extract_latest_sections(D, topic) ==
  LET body == D[topic].body
      headings == {i \in 1..Len(body) : body[i].kind # "none"}
      voice == {i \in headings : body[i].kind = "Voice Dump"}
      ai == {i \in headings : body[i].kind = "AI Commentary"}
      last(S) == CHOOSE i \in S : \A j \in S : j <= i
  IN IF ~D[topic].exists \/ headings = {}
       THEN [latest_voice_dump |-> FALSE, latest_ai_commentary |-> {},
             last_section_kind |-> "None"]
       ELSE [latest_voice_dump |-> voice # {},
             latest_ai_commentary |->
               IF ai = {} THEN {}
               ELSE {body[j].marker : j \in
                       {j \in last(ai)..Len(body) :
                          \A h \in headings : h > last(ai) => j < h}},
             last_section_kind |-> body[last(headings)].kind]

\* cli.py:65-105: the topic file after the command, and its exit code
cmd_rerun_codex(D, topic, force, out) ==
  LET latest == extract_latest_sections(D, topic)
  IN IF ~latest.latest_voice_dump THEN <<D, 2>>
     ELSE IF /\ ~force
             /\ latest.last_section_kind = "AI Commentary"
             /\ "placeholder" \notin latest.latest_ai_commentary
       THEN <<D, 0>>
     ELSE IF out = CodexFailed THEN <<D, 1>>
     ELSE <<append_block(D, topic,
                         [kind |-> section_kind(rerun_commentary(out)),
                          marker |-> "commentary"], TRUE), 0>>

\* the topic files the command is run on: voice dumps, commentaries and
\* placeholders as process_audio_file appends them
RerunBodies ==
  {b \in UNION {[1..n -> {[kind |-> "Voice Dump", marker |-> "h1", sep |-> TRUE],
                          [kind |-> "AI Commentary", marker |-> "commentary", sep |-> TRUE],
                          [kind |-> "AI Commentary", marker |-> "placeholder", sep |-> TRUE]}] :
                  n \in 0..(MaxSections + 1)} :
     b # <<>> => b[1].kind = "Voice Dump"}

\* ---------------------------------------------------------------- state
VARIABLES
  now,      \* time.time()
  ledger,   \* processed_files: one row per sha256 ("absent": no row)
  docs,     \* the topic files under cfg.paths.topics_dir
  inbox,    \* which paths of the inbox hold a file
  archive,  \* the files under cfg.paths.archive_audio_dir, by name and slot
  pc,       \* where each process stands in process_audio_file
  loc,      \* the locals of each process's run
  runs,     \* process_audio_file invocations so far
  forced,   \* the contents a run with --force was started on
  lost,     \* the contents a run was killed on after its append, before its commit
  stat,     \* st_mtime_ns and st_size of the file at each path of the inbox
  bytes,    \* the content of the file at each path of the inbox
  snap,     \* Watcher._processed_sources
  queue,    \* the sorted stable list of the watcher's cycle, not yet processed
  stop,     \* Watcher._stop
  wpc,      \* where run_forever stands: "sleep", "cycle", "stopped"
  done_stat, \* st_mtime_ns and st_size each path had when a run on it last returned an outcome
  skip_stat, \* st_mtime_ns and st_size each path had when the watcher last saw a run on it skipped as processed
  seen,     \* the StableFileTracker of the watcher
  call,     \* the arguments of a call of a function taken by itself
  ret       \* what that call returned or raised

\* the files of the inbox and the variables of the watcher, but its tracker
wvars == <<stat, bytes, snap, queue, stop, wpc, done_stat, skip_stat>>

\* a function taken by itself
fvars == <<call, ret>>

vars == <<now, ledger, docs, inbox, archive, pc, loc, runs, forced, lost, wvars, seen, fvars>>

\* util.sha256_file
sha256_file(path) == bytes[path]

\* the locals before a run
NoRun ==
  [path |-> Null, sha |-> Null, force |-> FALSE, why |-> Null,
   transcript |-> Null, topic |-> Null, created |-> FALSE,
   planned_archive |-> NoPath,
   archived_audio |-> NoPath, codex_status |-> Null, context |-> <<>>,
   result |-> Null]

InitProgram ==
  /\ now = 0
  /\ ledger = [c \in ContentIds |-> NoRow]
  /\ docs = [t \in Topics |-> NoFile]
  /\ inbox = [f \in Paths |-> TRUE]
  /\ archive = [n \in Names |-> [i \in Slots |-> Null]]
  /\ pc = [p \in Procs |-> "idle"]
  /\ loc = [p \in Procs |-> NoRun]
  /\ runs = 0
  /\ forced = {}
  /\ lost = {}
  /\ stat = [f \in Paths |-> <<1, 1>>]
  /\ bytes = [f \in Paths |-> FirstBytes(f)]
  /\ snap = [f \in Paths |-> NoSnap]
  /\ queue = <<>>
  /\ stop = FALSE
  /\ wpc = "sleep"
  /\ done_stat = [f \in Paths |-> NoSnap]
  /\ skip_stat = [f \in Paths |-> NoSnap]
  /\ seen = [f \in Paths |-> NoSeen]

Init ==
  /\ InitProgram
  /\ call = NoCall
  /\ ret = NoCall

\* the run of p ends: `result` is what the caller sees
Finish(p, result) ==
  /\ pc' = [pc EXCEPT ![p] = "returned"]
  /\ loc' = [loc EXCEPT ![p].result = result]

Goto(p, label) == pc' = [pc EXCEPT ![p] = label]

\* ------------------------------------------------- process_audio_file
\* faulty variant: a file that is gone goes into the ledger as failed
Enter_recording_vanished(p, path, force) ==
  /\ pc[p] \in {"idle", "returned"}
  /\ forced' = IF force /\ inbox[path] THEN forced \cup {sha256_file(path)} ELSE forced
  /\ IF ~inbox[path]
       THEN /\ pc' = [pc EXCEPT ![p] = "returned"]
            /\ loc' = [loc EXCEPT ![p] = [NoRun EXCEPT !.path = path,
                                                      !.force = force,
                                                      !.why = "vanished",
                                                      !.result = "None"]]
            /\ ledger' = mark_failed(ledger, sha256_file(path), "vanished", now)
       ELSE /\ Goto(p, "hashed")
            /\ loc' = [loc EXCEPT ![p] = [NoRun EXCEPT !.path = path,
                                                      !.force = force,
                                                      !.sha = sha256_file(path)]]
            /\ UNCHANGED ledger
  /\ UNCHANGED <<now, docs, inbox, archive, lost, wvars, seen, fvars>>

\* pipeline.py:52-57: resolve, exists(), sha256_file
Enter(p, path, force) ==
  /\ pc[p] \in {"idle", "returned"}
  /\ forced' = IF force /\ inbox[path] THEN forced \cup {sha256_file(path)} ELSE forced
  /\ IF ~inbox[path]
       THEN /\ pc' = [pc EXCEPT ![p] = "returned"]
            /\ loc' = [loc EXCEPT ![p] = [NoRun EXCEPT !.path = path,
                                                      !.force = force,
                                                      !.why = "vanished",
                                                      !.result = "None"]]
       ELSE /\ Goto(p, "hashed")
            /\ loc' = [loc EXCEPT ![p] = [NoRun EXCEPT !.path = path,
                                                      !.force = force,
                                                      !.sha = sha256_file(path)]]
  /\ UNCHANGED <<now, ledger, docs, inbox, archive, lost, wvars, seen, fvars>>

\* one of a bounded number of invocations, by cli.cmd_process or the watcher
Start(p, path, force) ==
  /\ runs < MaxRuns
  /\ runs' = runs + 1
  /\ Enter(p, path, force)

\* faulty variant: a processed content is skipped even under --force
CheckProcessed_ignoring_force(p) ==
  /\ pc[p] = "hashed"
  /\ IF is_processed(ledger, loc[p].sha)
       THEN /\ pc' = [pc EXCEPT ![p] = "returned"]
            /\ loc' = [loc EXCEPT ![p].why = "processed", ![p].result = "None"]
       ELSE /\ Goto(p, "check_retry")
            /\ UNCHANGED loc
  /\ UNCHANGED <<now, ledger, docs, inbox, archive, runs, forced, lost, wvars, seen, fvars>>

\* pipeline.py:58-60
CheckProcessed(p) ==
  /\ pc[p] = "hashed"
  /\ IF is_processed(ledger, loc[p].sha) /\ ~loc[p].force
       THEN /\ pc' = [pc EXCEPT ![p] = "returned"]
            /\ loc' = [loc EXCEPT ![p].why = "processed", ![p].result = "None"]
       ELSE /\ Goto(p, "check_retry")
            /\ UNCHANGED loc
  /\ UNCHANGED <<now, ledger, docs, inbox, archive, runs, forced, lost, wvars, seen, fvars>>

\* faulty variant: a run that is skipped renews the lease it found
CheckRetry_renewing(p) ==
  /\ pc[p] = "check_retry"
  /\ IF ~allow_retry_in_progress(ledger, loc[p].sha, LeaseTtl, now) /\ ~loc[p].force
       THEN /\ pc' = [pc EXCEPT ![p] = "returned"]
            /\ loc' = [loc EXCEPT ![p].why = "in_progress", ![p].result = "None"]
            /\ ledger' = mark_in_progress(ledger, loc[p].sha, loc[p].path, NullT, NullT, TRUE, now)
       ELSE /\ Goto(p, "lease")
            /\ loc' = [loc EXCEPT ![p].why = ledger[loc[p].sha].status]
            /\ UNCHANGED ledger
  /\ UNCHANGED <<now, docs, inbox, archive, runs, forced, lost, wvars, seen, fvars>>

\* pipeline.py:62-64
CheckRetry(p) ==
  /\ pc[p] = "check_retry"
  /\ IF ~allow_retry_in_progress(ledger, loc[p].sha, LeaseTtl, now) /\ ~loc[p].force
       THEN /\ pc' = [pc EXCEPT ![p] = "returned"]
            /\ loc' = [loc EXCEPT ![p].why = "in_progress", ![p].result = "None"]
       ELSE /\ Goto(p, "lease")
            /\ loc' = [loc EXCEPT ![p].why =
                         IF ledger[loc[p].sha].status = "in_progress"
                           THEN IF allow_retry_in_progress(ledger, loc[p].sha, LeaseTtl, now)
                                  THEN "expired" ELSE "forced"
                           ELSE ledger[loc[p].sha].status]
  /\ UNCHANGED <<now, ledger, docs, inbox, archive, runs, forced, lost, wvars, seen, fvars>>

\* pipeline.py:66: the ledger's force flag is always on. The call names
\* neither source_mtime_ns nor source_size, which state.py:151-152 declares
\* keyword-only without a default; the call is modelled as the upsert of
\* state.py:158-171 with both columns NULL, the store this call was written
\* against
MarkInProgress(p) ==
  /\ pc[p] = "lease"
  /\ ledger' = mark_in_progress(ledger, loc[p].sha, loc[p].path, NullT, NullT, TRUE, now)
  /\ Goto(p, "transcribe")
  /\ UNCHANGED <<now, docs, inbox, archive, loc, runs, forced, lost, wvars, seen, fvars>>

\* pipeline.py:69: build_transcriber raises TranscriptionError for an unknown
\* cfg.transcription.engine, outside the try block of line 70
BuildTranscriberFails(p) ==
  /\ pc[p] = "transcribe"
  /\ Finish(p, "TranscriptionError")
  /\ UNCHANGED <<now, ledger, docs, inbox, archive, runs, forced, lost, wvars, seen, fvars>>

\* pipeline.py:70-71
TranscribeOk(p) ==
  /\ pc[p] = "transcribe"
  /\ Goto(p, "route")
  /\ loc' = [loc EXCEPT ![p].transcript = Transcript(loc[p].sha)]
  /\ UNCHANGED <<now, ledger, docs, inbox, archive, runs, forced, lost, wvars, seen, fvars>>

\* pipeline.py:72-74
TranscribeFails(p) ==
  /\ pc[p] = "transcribe"
  /\ ledger' = mark_failed(ledger, loc[p].sha, "transcription error", now)
  /\ Finish(p, "TranscriptionError")
  /\ UNCHANGED <<now, docs, inbox, archive, runs, forced, lost, wvars, seen, fvars>>

\* pipeline.py:76-85
Route(p) ==
  LET topic == decide_route(loc[p].path, loc[p].transcript)
      made == ensure_topic_file(docs, topic)
  IN /\ pc[p] = "route"
     /\ docs' = made[1]
     /\ loc' = [loc EXCEPT ![p].topic = topic, ![p].created = made[2]]
     /\ Goto(p, "archive")
     /\ UNCHANGED <<now, ledger, inbox, archive, runs, forced, lost, wvars, seen, fvars>>

\* pipeline.py:87-100: shutil.copy2 fails when the source is gone, and may
\* fail for any other reason
ArchiveCopy(p, ok) ==
  LET name == BaseName(loc[p].path)
      planned == plan_archive_path(archive, name)
      copies == archive[name][planned] = Null
  IN /\ pc[p] = "archive"
     /\ IF copies /\ (~ok \/ ~inbox[loc[p].path])
          THEN /\ UNCHANGED archive
               /\ loc' = [loc EXCEPT ![p].archived_audio = NoPath]
          ELSE /\ archive' = ensure_archived_copy(archive, name, planned, loc[p].sha)
               /\ loc' = [loc EXCEPT ![p].archived_audio = <<name, planned>>]
     /\ Goto(p, "check_notebook")
     /\ UNCHANGED <<now, ledger, docs, inbox, runs, forced, lost, wvars, seen, fvars>>

\* pipeline.py:102
CheckNotebook(p) ==
  /\ pc[p] = "check_notebook"
  /\ IF notebook_contains_sha256(docs, loc[p].topic, loc[p].sha) /\ ~loc[p].force
       THEN Goto(p, "dup_finalize")
       ELSE Goto(p, "append")
  /\ UNCHANGED <<now, ledger, docs, inbox, archive, loc, runs, forced, lost, wvars, seen, fvars>>

\* pipeline.py:104-108
DupFinalize(p, ok) ==
  /\ pc[p] = "dup_finalize"
  /\ IF loc[p].archived_audio # NoPath /\ ok
       THEN inbox' = finalize_archived_move(inbox, loc[p].path)
       ELSE UNCHANGED inbox
  /\ Goto(p, "dup_commit")
  /\ UNCHANGED <<now, ledger, docs, archive, loc, runs, forced, lost, wvars, seen, fvars>>

\* pipeline.py:109-121
DupCommit(p) ==
  /\ pc[p] = "dup_commit"
  /\ ledger' = mark_processed(ledger, loc[p].sha, loc[p].archived_audio,
                              loc[p].topic, "skipped", Null, NullT, NullT, now)
  /\ pc' = [pc EXCEPT ![p] = "returned"]
  /\ loc' = [loc EXCEPT ![p].codex_status = "skipped", ![p].result = "ProcessOutcome"]
  /\ UNCHANGED <<now, docs, inbox, archive, runs, forced, lost, wvars, seen, fvars>>

\* pipeline.py:123-130
AppendVoiceDump(p) ==
  /\ pc[p] = "append"
  /\ docs' = append_block(docs, loc[p].topic,
                          format_voice_dump_section(loc[p].sha), ~loc[p].created)
  /\ Goto(p, "codex")
  /\ UNCHANGED <<now, ledger, inbox, archive, loc, runs, forced, lost, wvars, seen, fvars>>

\* faulty variant: the placeholder is written also when cfg.codex.enabled is
\* false
Codex_placeholder_when_disabled(p, outcome) ==
  /\ pc[p] = "codex"
  /\ outcome \in {"ok", "CodexError", "disabled"}
  /\ docs' = append_block(docs, loc[p].topic,
                          Commentary(IF outcome = "ok" THEN "commentary" ELSE "placeholder"),
                          TRUE)
  /\ loc' = [loc EXCEPT ![p].codex_status =
               CASE outcome = "ok" -> "ok"
                 [] outcome = "CodexError" -> "unavailable"
                 [] OTHER -> "disabled"]
  /\ Goto(p, "finalize")
  /\ UNCHANGED <<now, ledger, inbox, archive, runs, forced, lost, wvars, seen, fvars>>

\* pipeline.py:134-165. outcome "ok": run_codex returned text; "CodexError":
\* it (or the prompt build) raised CodexError; "disabled": cfg.codex.enabled
\* is false
Codex(p, outcome) ==
  /\ pc[p] = "codex"
  /\ outcome \in {"ok", "CodexError", "disabled"}
  /\ docs' = CASE outcome = "ok" ->
                    append_block(docs, loc[p].topic, Commentary("commentary"), TRUE)
               [] outcome = "CodexError" ->
                    append_block(docs, loc[p].topic, Commentary("placeholder"), TRUE)
               [] OTHER -> docs
  /\ loc' = [loc EXCEPT ![p].codex_status =
               CASE outcome = "ok" -> "ok"
                 [] outcome = "CodexError" -> "unavailable"
                 [] OTHER -> "disabled"]
  /\ Goto(p, "finalize")
  /\ UNCHANGED <<now, ledger, inbox, archive, runs, forced, lost, wvars, seen, fvars>>

\* pipeline.py:136-142: extract_context reads the topic file
ExtractContext(p) ==
  /\ pc[p] = "codex"
  /\ loc' = [loc EXCEPT ![p].context =
               extract_context(read_sections(docs, loc[p].topic), context_voice_dumps,
                               context_ai_commentaries, context_max_chars, TRUE).markdown]
  /\ Goto(p, "codex_run")
  /\ UNCHANGED <<now, ledger, docs, inbox, archive, runs, forced, lost, wvars, seen, fvars>>

\* pipeline.py:143-164: run_codex has returned or raised CodexError, and the
\* commentary or the placeholder is appended
CodexAppend(p, outcome) ==
  /\ pc[p] = "codex_run"
  /\ outcome \in {"ok", "CodexError"}
  /\ docs' = append_block(docs, loc[p].topic,
                          Commentary(IF outcome = "ok" THEN "commentary" ELSE "placeholder"),
                          TRUE)
  /\ loc' = [loc EXCEPT ![p].codex_status = IF outcome = "ok" THEN "ok" ELSE "unavailable"]
  /\ Goto(p, "finalize")
  /\ UNCHANGED <<now, ledger, inbox, archive, runs, forced, lost, wvars, seen, fvars>>

\* pipeline.py:136-154: the try block catches CodexError alone; an OSError of
\* the prompt file other than FileNotFoundError (codex_runner.py:24-28), a
\* UnicodeDecodeError, or an OSError of subprocess.run other than
\* FileNotFoundError (codex_runner.py:124-153) leaves process_audio_file
CodexRaisesOther(p) ==
  /\ pc[p] = "codex"
  /\ Finish(p, "Exception")
  /\ UNCHANGED <<now, ledger, docs, inbox, archive, runs, forced, lost, wvars, seen, fvars>>

\* faulty variant: the original is removed whether or not a copy was made
FinalizeAlways(p, ok) ==
  /\ pc[p] = "finalize"
  /\ inbox' = finalize_archived_move(inbox, loc[p].path)
  /\ Goto(p, "commit")
  /\ UNCHANGED <<now, ledger, docs, archive, loc, runs, forced, lost, wvars, seen, fvars>>

\* pipeline.py:167-171
Finalize(p, ok) ==
  /\ pc[p] = "finalize"
  /\ IF loc[p].archived_audio # NoPath /\ ok
       THEN inbox' = finalize_archived_move(inbox, loc[p].path)
       ELSE UNCHANGED inbox
  /\ Goto(p, "commit")
  /\ UNCHANGED <<now, ledger, docs, archive, loc, runs, forced, lost, wvars, seen, fvars>>

\* pipeline.py:173-185
Commit(p) ==
  /\ pc[p] = "commit"
  /\ ledger' = mark_processed(ledger, loc[p].sha, loc[p].archived_audio,
                              loc[p].topic, loc[p].codex_status,
                              Null, NullT, NullT, now)
  /\ Finish(p, "ProcessOutcome")
  /\ UNCHANGED <<now, docs, inbox, archive, runs, forced, lost, wvars, seen, fvars>>

\* the process is killed between two steps of a run
Crash(p) ==
  /\ pc[p] \notin {"idle", "returned"}
  /\ pc' = [pc EXCEPT ![p] = "idle"]
  /\ loc' = [loc EXCEPT ![p] = NoRun]
  /\ lost' = IF pc[p] \in {"codex", "finalize", "commit"}
              THEN lost \cup {loc[p].sha} ELSE lost
  /\ UNCHANGED <<now, ledger, docs, inbox, archive, runs, forced, wvars, seen, fvars>>

\* time passes; the clock of the model stops at MaxTime, the timers of the
\* tracker go on
Tick ==
  /\ now' = IF now < MaxTime THEN now + 1 ELSE now
  /\ seen' = Elapse(seen)
  /\ UNCHANGED <<ledger, docs, inbox, archive, pc, loc, runs, forced, lost, wvars, fvars>>

\* one process on the two copies, every outcome of every step, kills and
\* --force
NextSeq ==
  \/ Tick
  \/ \E path \in Copies, force \in BOOLEAN : Start("w1", path, force)
  \/ CheckProcessed("w1")
  \/ CheckRetry("w1")
  \/ MarkInProgress("w1")
  \/ BuildTranscriberFails("w1")
  \/ TranscribeOk("w1")
  \/ TranscribeFails("w1")
  \/ Route("w1")
  \/ \E ok \in BOOLEAN : ArchiveCopy("w1", ok)
  \/ CheckNotebook("w1")
  \/ \E ok \in BOOLEAN : DupFinalize("w1", ok)
  \/ DupCommit("w1")
  \/ AppendVoiceDump("w1")
  \/ \E outcome \in {"ok", "CodexError", "disabled"} : Codex("w1", outcome)
  \/ CodexRaisesOther("w1")
  \/ \E ok \in BOOLEAN : Finalize("w1", ok)
  \/ Commit("w1")
  \/ Crash("w1")

SpecSeq == Init /\ [][NextSeq]_vars

\* one process, with and without --force, where the archive and the
\* annotation are in order: the runs differ by what the ledger holds when
\* they start
NextForce ==
  \/ Tick
  \/ \E path \in Copies, force \in BOOLEAN : Start("w1", path, force)
  \/ CheckProcessed("w1")
  \/ CheckRetry("w1")
  \/ MarkInProgress("w1")
  \/ TranscribeOk("w1")
  \/ TranscribeFails("w1")
  \/ Route("w1")
  \/ ArchiveCopy("w1", TRUE)
  \/ CheckNotebook("w1")
  \/ DupFinalize("w1", TRUE)
  \/ DupCommit("w1")
  \/ AppendVoiceDump("w1")
  \/ Codex("w1", "disabled")
  \/ Finalize("w1", TRUE)
  \/ Commit("w1")
  \/ Crash("w1")

SpecForce == Init /\ [][NextForce]_vars

\* two processes (a watch process and a one-shot `process` command) on the
\* two copies of the same bytes, without --force
Next ==
  \/ Tick
  \/ \E p \in Procs :
       \/ \E path \in Copies : Start(p, path, FALSE)
       \/ CheckProcessed(p)
       \/ CheckRetry(p)
       \/ MarkInProgress(p)
       \/ BuildTranscriberFails(p)
       \/ TranscribeOk(p)
       \/ TranscribeFails(p)
       \/ Route(p)
       \/ ArchiveCopy(p, TRUE)
       \/ CheckNotebook(p)
       \/ DupFinalize(p, TRUE)
       \/ DupCommit(p)
       \/ AppendVoiceDump(p)
       \/ Codex(p, "disabled")
       \/ CodexRaisesOther(p)
       \/ Finalize(p, TRUE)
       \/ Commit(p)
       \/ Crash(p)

Spec == Init /\ [][Next]_vars


\* ------------------------------------------------- the documents, call by call
\* pipeline.py:76-81 and markdown.py:25-26: decide_route, then
\* ensure_topic_file looks whether the document exists
RouteCheck(p) ==
  LET topic == decide_route(loc[p].path, loc[p].transcript)
  IN /\ pc[p] = "route"
     /\ loc' = [loc EXCEPT ![p].topic = topic, ![p].created = FALSE]
     /\ Goto(p, IF docs[topic].exists THEN "archive" ELSE "route_write")
     /\ UNCHANGED <<now, ledger, docs, inbox, archive, runs, forced, lost, wvars, seen, fvars>>

\* markdown.py:27-29: ensure_topic_file, having found no document, writes
\* the title
RouteWrite(p) ==
  /\ pc[p] = "route_write"
  /\ docs' = write_title(docs, loc[p].topic)
  /\ loc' = [loc EXCEPT ![p].created = TRUE]
  /\ Goto(p, "archive")
  /\ UNCHANGED <<now, ledger, inbox, archive, runs, forced, lost, wvars, seen, fvars>>

\* two processes, each on a recording of its own, of different bytes that go
\* to the same topic, with and without --force
NextDocs ==
  \E p \in Procs :
    \/ \E force \in BOOLEAN : Start(p, IF p = "w1" THEN "b" ELSE "c", force)
    \/ CheckProcessed(p)
    \/ CheckRetry(p)
    \/ MarkInProgress(p)
    \/ TranscribeOk(p)
    \/ RouteCheck(p)
    \/ RouteWrite(p)
    \/ \E ok \in BOOLEAN : ArchiveCopy(p, ok)
    \/ CheckNotebook(p)
    \/ AppendVoiceDump(p)
    \/ \E outcome \in {"ok", "CodexError"} : Codex(p, outcome)
    \/ Finalize(p, TRUE)
    \/ Commit(p)

SpecDocs == Init /\ [][NextDocs]_vars

\* ------------------------------------------- annotation, call by call
\* two processes without --force, each on a recording of its own, of
\* different bytes that go to the same topic; the annotation is enabled and
\* its reading of the document is a step of its own
NextAnnotate ==
  \E p \in Procs :
    \/ Start(p, IF p = "w1" THEN "b" ELSE "c", FALSE)
    \/ CheckProcessed(p)
    \/ CheckRetry(p)
    \/ MarkInProgress(p)
    \/ TranscribeOk(p)
    \/ Route(p)
    \/ ArchiveCopy(p, TRUE)
    \/ CheckNotebook(p)
    \/ AppendVoiceDump(p)
    \/ ExtractContext(p)
    \/ \E outcome \in {"ok", "CodexError"} : CodexAppend(p, outcome)
    \/ Finalize(p, TRUE)
    \/ Commit(p)

SpecAnnotate == Init /\ [][NextAnnotate]_vars

\* --------------------------------------------- extract_context by itself
InitContext ==
  /\ InitProgram
  /\ call \in ContextCalls
  /\ ret = NoCall

ExtractContextCall ==
  /\ ret = NoCall
  /\ ret' = extract_context(call.sections, call.voice_dumps, call.ai_commentaries,
                            call.max_chars, call.skip_latest_voice_dump)
  /\ UNCHANGED <<now, ledger, docs, inbox, archive, pc, loc, runs, forced, lost, wvars, seen, call>>

SpecContext == InitContext /\ [][ExtractContextCall]_vars

\* ------------------------------------------------- archival, call by call
\* pipeline.py:88-93: plan_archive_path looks at the archive directory
PlanArchive(p) ==
  /\ pc[p] = "archive"
  /\ loc' = [loc EXCEPT ![p].planned_archive =
               <<BaseName(loc[p].path), plan_archive_path(archive, BaseName(loc[p].path))>>]
  /\ Goto(p, "archive_copy")
  /\ UNCHANGED <<now, ledger, docs, inbox, archive, runs, forced, lost, wvars, seen, fvars>>

\* pipeline.py:95-100: ensure_archived_copy on the planned path, which it
\* returns untouched when a file is there by now
EnsureCopy(p, ok) ==
  LET name == loc[p].planned_archive[1]
      slot == loc[p].planned_archive[2]
      copies == archive[name][slot] = Null
  IN /\ pc[p] = "archive_copy"
     /\ IF copies /\ (~ok \/ ~inbox[loc[p].path])
          THEN /\ UNCHANGED archive
               /\ loc' = [loc EXCEPT ![p].archived_audio = NoPath]
          ELSE /\ archive' = ensure_archived_copy(archive, name, slot, loc[p].sha)
               /\ loc' = [loc EXCEPT ![p].archived_audio = <<name, slot>>]
     /\ Goto(p, "check_notebook")
     /\ UNCHANGED <<now, ledger, docs, inbox, runs, forced, lost, wvars, seen, fvars>>

\* two processes on two files of the same name and different bytes (in two
\* folders of the inbox), without --force
NextArchive ==
  \E p \in Procs :
    \/ \E path \in {"a", "c"} : Start(p, path, FALSE)
    \/ CheckProcessed(p)
    \/ CheckRetry(p)
    \/ MarkInProgress(p)
    \/ TranscribeOk(p)
    \/ Route(p)
    \/ PlanArchive(p)
    \/ \E ok \in BOOLEAN : EnsureCopy(p, ok)
    \/ CheckNotebook(p)
    \/ DupFinalize(p, TRUE)
    \/ DupCommit(p)
    \/ AppendVoiceDump(p)
    \/ Codex(p, "disabled")
    \/ Finalize(p, TRUE)
    \/ Commit(p)

SpecArchive == Init /\ [][NextArchive]_vars


\* ------------------------------------------------- recovery after a kill
\* watcher.py run_once: the watcher hands over a file that list_candidates
\* found in the inbox, cycle after cycle, without --force
WatchOffer(p, path) ==
  /\ inbox[path]
  /\ Enter(p, path, FALSE)
  /\ UNCHANGED runs

\* the process is killed while its run holds the lease, early enough for
\* the lease to run out before the clock of the model stops
CrashHolding(p) ==
  /\ pc[p] \in {"transcribe", "route", "archive", "check_notebook", "append",
                "codex", "finalize", "commit", "dup_finalize", "dup_commit"}
  /\ ledger[loc[p].sha].started_at + LeaseTtl < MaxTime
  /\ Crash(p)

\* the steps of the watcher's run on the one file that holds content h2;
\* the transform succeeds and nothing but a kill ends a run early
RecoverSteps ==
  \/ WatchOffer("w1", "c")
  \/ CheckProcessed("w1")
  \/ CheckRetry("w1")
  \/ MarkInProgress("w1")
  \/ TranscribeOk("w1")
  \/ Route("w1")
  \/ \E ok \in BOOLEAN : ArchiveCopy("w1", ok)
  \/ CheckNotebook("w1")
  \/ \E ok \in BOOLEAN : DupFinalize("w1", ok)
  \/ DupCommit("w1")
  \/ AppendVoiceDump("w1")
  \/ \E outcome \in {"ok", "CodexError", "disabled"} : Codex("w1", outcome)
  \/ \E ok \in BOOLEAN : Finalize("w1", ok)
  \/ Commit("w1")

NextRecover == Tick \/ RecoverSteps \/ CrashHolding("w1")

\* the watcher keeps cycling and its run keeps stepping unless killed; time
\* passes
SpecRecover ==
  Init /\ [][NextRecover]_vars /\ WF_vars(Tick) /\ WF_vars(RecoverSteps)


\* ------------------------------------------------- the watcher's cycles
\* the watcher is between two process_audio_file calls
WatcherFree == pc["w1"] = "idle"

\* the inbox the watcher is started on: nothing under "c" yet, "b" saved
\* after "a"
InitWatch ==
  /\ now = 0
  /\ ledger = [c \in ContentIds |-> NoRow]
  /\ docs = [t \in Topics |-> NoFile]
  /\ inbox = [f \in Paths |-> f \in Copies]
  /\ archive = [n \in Names |-> [i \in Slots |-> Null]]
  /\ pc = [p \in Procs |-> "idle"]
  /\ loc = [p \in Procs |-> NoRun]
  /\ runs = 0
  /\ forced = {}
  /\ lost = {}
  /\ stat = [f \in Paths |-> IF f = "b" THEN <<2, 1>> ELSE <<1, 1>>]
  /\ bytes = [f \in Paths |-> FirstBytes(f)]
  /\ snap = [f \in Paths |-> NoSnap]
  /\ queue = <<>>
  /\ stop = FALSE
  /\ wpc = "sleep"
  /\ done_stat = [f \in Paths |-> NoSnap]
  /\ skip_stat = [f \in Paths |-> NoSnap]
  /\ seen = [f \in Paths |-> NoSeen]
  /\ call = NoCall
  /\ ret = NoCall

\* watcher.py:66-67, 71-105: `while not self._stop`, then run_once up to its
\* loop: list_candidates, the pre-filter against _processed_sources (a
\* candidate that passes loses its key), `if not candidates: return`,
\* observe, sort
WatchScan ==
  LET candidates == {f \in Paths : inbox[f]}
      kept == {f \in candidates : ~PreFilterDrops(snap, f, stat[f])}
      stable == observe(seen, kept, stat, StableSeconds)
  IN /\ wpc = "sleep"
     /\ ~stop
     /\ WatcherFree
     /\ snap' = [f \in Paths |-> IF f \in kept THEN NoSnap ELSE snap[f]]
     /\ seen' = IF kept = {} THEN seen ELSE Observed(seen, kept, stat)
     /\ queue' \in SortedByMtime(stable, stat)
     /\ wpc' = IF stable = {} THEN "sleep" ELSE "cycle"
     /\ UNCHANGED <<now, ledger, docs, inbox, archive, pc, loc, runs, forced, lost, stat, bytes, stop, done_stat, skip_stat, fvars>>

\* watcher.py:107-109: process_audio_file on the next path of the stable list
WatchProcess(path) ==
  /\ wpc = "cycle"
  /\ queue # <<>>
  /\ path = Head(queue)
  /\ WatcherFree
  /\ Enter("w1", path, FALSE)
  /\ UNCHANGED <<runs, wvars, seen, fvars>>

\* faulty variant: an exception of process_audio_file ends the cycle
WatchAfter_raising ==
  LET path == loc["w1"].path
      raised == loc["w1"].result \in {"TranscriptionError", "Exception"} IN
  /\ wpc = "cycle"
  /\ pc["w1"] = "returned"
  /\ queue' = IF raised THEN <<>> ELSE Tail(queue)
  /\ wpc' = IF raised \/ Tail(queue) = <<>> THEN "sleep" ELSE "cycle"
  /\ seen' = IF raised THEN seen ELSE forget(seen, path)
  /\ snap' = IF loc["w1"].result = "ProcessOutcome" /\ inbox[path]
               THEN [snap EXCEPT ![path] = stat[path]] ELSE snap
  /\ done_stat' = IF loc["w1"].result = "ProcessOutcome"
                    THEN [done_stat EXCEPT ![path] = stat[path]] ELSE done_stat
  /\ skip_stat' = IF loc["w1"].result = "None" /\ loc["w1"].why = "processed"
                    THEN [skip_stat EXCEPT ![path] = stat[path]] ELSE skip_stat
  /\ pc' = [pc EXCEPT !["w1"] = "idle"]
  /\ loc' = [loc EXCEPT !["w1"] = NoRun]
  /\ UNCHANGED <<now, ledger, docs, inbox, archive, runs, forced, lost, stat, bytes, stop, fvars>>

\* watcher.py:110-125: the snapshot of a file that gave an outcome and is
\* still there; an exception is logged; forget(path); the loop goes on, and
\* after the last path run_once returns and run_forever sleeps
WatchAfter ==
  LET path == loc["w1"].path IN
  /\ wpc = "cycle"
  /\ pc["w1"] = "returned"
  /\ queue' = Tail(queue)
  /\ wpc' = IF Tail(queue) = <<>> THEN "sleep" ELSE "cycle"
  /\ seen' = forget(seen, path)
  /\ snap' = IF loc["w1"].result = "ProcessOutcome" /\ inbox[path]
               THEN [snap EXCEPT ![path] = stat[path]] ELSE snap
  /\ done_stat' = IF loc["w1"].result = "ProcessOutcome"
                    THEN [done_stat EXCEPT ![path] = stat[path]] ELSE done_stat
  /\ skip_stat' = IF loc["w1"].result = "None" /\ loc["w1"].why = "processed"
                    THEN [skip_stat EXCEPT ![path] = stat[path]] ELSE skip_stat
  /\ pc' = [pc EXCEPT !["w1"] = "idle"]
  /\ loc' = [loc EXCEPT !["w1"] = NoRun]
  /\ UNCHANGED <<now, ledger, docs, inbox, archive, runs, forced, lost, stat, bytes, stop, fvars>>

\* faulty variant: the signal ends the run and the cycle it arrives in
Signal_aborting ==
  /\ wpc # "stopped"
  /\ ~stop
  /\ stop' = TRUE
  /\ pc' = [pc EXCEPT !["w1"] = "idle"]
  /\ loc' = [loc EXCEPT !["w1"] = NoRun]
  /\ queue' = <<>>
  /\ wpc' = "sleep"
  /\ UNCHANGED <<now, ledger, docs, inbox, archive, runs, forced, lost, stat, bytes, snap, done_stat, skip_stat, seen, fvars>>

\* watcher.py:62-63: SIGTERM or SIGINT, at any point of the loop or of a
\* run, calls stop()
Signal ==
  /\ wpc # "stopped"
  /\ ~stop
  /\ stop' = TRUE
  /\ UNCHANGED <<now, ledger, docs, inbox, archive, pc, loc, runs, forced, lost, stat, bytes, snap, queue, wpc, done_stat, skip_stat, seen, fvars>>

\* watcher.py:66, 69: `while not self._stop` ends the loop and run_forever
\* returns
WatchExit ==
  /\ wpc = "sleep"
  /\ stop
  /\ wpc' = "stopped"
  /\ UNCHANGED <<now, ledger, docs, inbox, archive, pc, loc, runs, forced, lost, stat, bytes, snap, queue, stop, done_stat, skip_stat, seen, fvars>>

\* watcher.py:47-52: the watch process is started anew, with its index
\* loaded from the ledger and an empty tracker
Restart ==
  /\ wpc \in {"sleep", "stopped"}
  /\ WatcherFree
  /\ snap' = processed_source_snapshots(ledger)
  /\ seen' = [f \in Paths |-> NoSeen]
  /\ stop' = FALSE
  /\ wpc' = "sleep"
  /\ skip_stat' = [f \in Paths |-> NoSnap]
  /\ UNCHANGED <<now, ledger, docs, inbox, archive, pc, loc, forced, lost, stat, bytes, queue, done_stat, fvars>>

\* a restart, at any time between two cycles
WatchRestart == Restart /\ UNCHANGED runs

\* one of a bounded number of restarts
WatchRestartCounted ==
  /\ runs < MaxRuns
  /\ runs' = runs + 1
  /\ Restart

\* a file is saved at a path of the inbox, over the one there if any, with
\* another mtime or size
Drop(path, st, c) ==
  /\ wpc # "cycle"
  /\ st # stat[path]
  /\ inbox' = [inbox EXCEPT ![path] = TRUE]
  /\ stat' = [stat EXCEPT ![path] = st]
  /\ bytes' = [bytes EXCEPT ![path] = c]
  /\ UNCHANGED <<now, ledger, docs, archive, pc, loc, runs, forced, lost, snap, queue, stop, wpc, done_stat, skip_stat, seen, fvars>>

\* the steps of the watch process itself
WatcherSteps ==
  \/ WatchScan
  \/ \E path \in Paths : WatchProcess(path)
  \/ WatchAfter
  \/ CheckProcessed("w1")
  \/ CheckRetry("w1")
  \/ MarkInProgress("w1")
  \/ TranscribeOk("w1")
  \/ TranscribeFails("w1")
  \/ Route("w1")
  \/ \E ok \in BOOLEAN : ArchiveCopy("w1", ok)
  \/ CheckNotebook("w1")
  \/ AppendVoiceDump("w1")
  \/ Codex("w1", "disabled")
  \/ Finalize("w1", TRUE)
  \/ Commit("w1")

\* one watch process that is never killed in a run (so that no run finds
\* its section in the document already) and gets no signal
NextWatch ==
  \/ Tick
  \/ WatcherSteps
  \/ WatchRestart
  \/ \E st \in Stats, c \in ContentIds : Drop("a", st, c)

SpecWatch == InitWatch /\ [][NextWatch]_vars

\* one watch process that runs on without a restart, and one new recording
\* saved under the path "a"
NextWatchSame ==
  \/ Tick
  \/ WatcherSteps
  \/ \E c \in ContentIds : Drop("a", <<3, 2>>, c)

SpecWatchSame == InitWatch /\ [][NextWatchSame]_vars

\* the same watch process, restarted a bounded number of times, with one
\* new recording saved under the path "a"
NextWatchLive ==
  \/ Tick
  \/ WatcherSteps
  \/ WatchRestartCounted
  \/ Drop("a", <<3, 2>>, "h2")

\* time passes and the watch process runs on whenever it can
SpecWatchLive == InitWatch /\ [][NextWatchLive]_vars /\ WF_vars(Tick) /\ WF_vars(WatcherSteps)

\* one watch process that may get a signal, on an inbox that is left alone
NextStop ==
  \/ Tick
  \/ WatcherSteps
  \/ Signal
  \/ WatchExit

SpecStop == InitWatch /\ [][NextStop]_vars /\ WF_vars(Tick) /\ WF_vars(WatcherSteps \/ WatchExit)


\* ------------------------------------------------ rerun-codex by itself
InitRerun ==
  /\ now = 0
  /\ ledger = [c \in ContentIds |-> NoRow]
  /\ docs \in {[t \in Topics |-> IF t = "T1" THEN [exists |-> TRUE, body |-> b] ELSE NoFile] :
                b \in RerunBodies}
  /\ inbox = [f \in Paths |-> TRUE]
  /\ archive = [n \in Names |-> [i \in Slots |-> Null]]
  /\ pc = [p \in Procs |-> "idle"]
  /\ loc = [p \in Procs |-> NoRun]
  /\ runs = 0
  /\ forced = {}
  /\ lost = {}
  /\ stat = [f \in Paths |-> <<1, 1>>]
  /\ bytes = [f \in Paths |-> FirstBytes(f)]
  /\ snap = [f \in Paths |-> NoSnap]
  /\ queue = <<>>
  /\ stop = FALSE
  /\ wpc = "sleep"
  /\ done_stat = [f \in Paths |-> NoSnap]
  /\ skip_stat = [f \in Paths |-> NoSnap]
  /\ seen = [f \in Paths |-> NoSeen]
  /\ call = NoCall
  /\ ret = NoCall

\* one `voice2md rerun-codex [--force] <topic file>`; `out` is what
\* run_codex gives if it is called
RerunCodex(force, out) ==
  LET done == cmd_rerun_codex(docs, "T1", force, out)
  IN /\ runs < MaxRuns
     /\ runs' = runs + 1
     /\ docs' = done[1]
     /\ call' = [kind |-> "rerun-codex", force |-> force]
     /\ ret' = [kind |-> "exit", code |-> done[2], appended |-> done[1] # docs]
     /\ UNCHANGED <<now, ledger, inbox, archive, pc, loc, forced, lost, wvars, seen>>

NextRerun ==
  \E force \in BOOLEAN, out \in CodexOutputs \cup {CodexFailed} : RerunCodex(force, out)

SpecRerun == InitRerun /\ [][NextRerun]_vars

\* ------------------------------------------------- run_codex by itself
\* any call of run_codex
InitCodex ==
  /\ InitProgram
  /\ call \in CodexCalls
  /\ ret = NoCall

\* codex_runner.py:107-161: the call returns or raises
RunCodex ==
  /\ ret = NoCall
  /\ ret' = run_codex(call)
  /\ UNCHANGED <<now, ledger, docs, inbox, archive, pc, loc, runs, forced, lost, wvars, seen, call>>

SpecCodex == InitCodex /\ [][RunCodex]_vars

\* ------------------------------------------------- decide_route by itself
\* any call of decide_route
InitRoute ==
  /\ InitProgram
  /\ call \in RouteCalls
  /\ ret = NoCall

\* router.py:276-306: the call returns
DecideRoute ==
  /\ ret = NoCall
  /\ ret' = RouteDecision(call)
  /\ UNCHANGED <<now, ledger, docs, inbox, archive, pc, loc, runs, forced, lost, wvars, seen, call>>

SpecRoute == InitRoute /\ [][DecideRoute]_vars

\* ------------------------------------------------- the ledger, call by call
\* the arguments a caller of StateStore may pass
ArchivePaths == {NoPath, <<"n1", 0>>}
TopicFiles == {Null, "T1"}
CodexStatuses == {Null, "ok"}
Fingerprints == {NullT, MaxTime}

\* the StateStore calls of one sequence
MaxCalls == MaxRuns + 1

\* state.py:146-181, called by any client with any arguments
LMarkInProgress(c, source_path, fp, force) ==
  /\ runs < MaxCalls
  /\ runs' = runs + 1
  /\ ledger' = mark_in_progress(ledger, c, source_path, fp, fp, force, now)
  /\ forced' = IF force THEN forced \cup {c} ELSE forced
  /\ UNCHANGED <<now, docs, inbox, archive, pc, loc, lost, wvars, seen, fvars>>

\* state.py:183-223
LMarkProcessed(c, archive_path, topic_file, codex_status, source_path, fp) ==
  /\ runs < MaxCalls
  /\ runs' = runs + 1
  /\ ledger' = mark_processed(ledger, c, archive_path, topic_file, codex_status,
                              source_path, fp, fp, now)
  /\ UNCHANGED <<now, docs, inbox, archive, pc, loc, forced, lost, wvars, seen, fvars>>

\* state.py:225-238
LMarkFailed(c, error) ==
  /\ runs < MaxCalls
  /\ runs' = runs + 1
  /\ ledger' = mark_failed(ledger, c, error, now)
  /\ UNCHANGED <<now, docs, inbox, archive, pc, loc, forced, lost, wvars, seen, fvars>>

\* any sequence of StateStore calls on an empty database
NextLedger ==
  \/ Tick
  \/ \E c \in ContentIds, fp \in Fingerprints, force \in BOOLEAN :
       LMarkInProgress(c, "a", fp, force)
  \/ \E c \in ContentIds, archive_path \in ArchivePaths, topic_file \in TopicFiles,
        codex_status \in CodexStatuses, source_path \in {Null, "a"},
        fp \in Fingerprints :
       LMarkProcessed(c, archive_path, topic_file, codex_status, source_path, fp)
  \/ \E c \in ContentIds : LMarkFailed(c, "transcription error")

SpecLedger == Init /\ [][NextLedger]_vars

\* the StateStore calls that decide what processed_source_snapshots reads:
\* the status, processed_at, source_path and fingerprint of the rows
NextSnapshots ==
  \/ Tick
  \/ \E c \in ContentIds : LMarkInProgress(c, "a", NullT, TRUE)
  \/ \E c \in ContentIds, source_path \in {Null, "a", "b"}, fp \in Fingerprints :
       LMarkProcessed(c, NoPath, Null, Null, source_path, fp)
  \/ \E c \in ContentIds : LMarkFailed(c, "transcription error")

SpecSnapshots == Init /\ [][NextSnapshots]_vars


\* ---------------------------------------------------------------- claims
\* the pcs of a run that has written its lease and not yet returned
PastLease ==
  {"transcribe", "route", "archive", "check_notebook", "append", "codex",
   "finalize", "commit", "dup_finalize", "dup_commit"}

\* the pcs of a run whose transform has returned text
AfterTransform == PastLease \ {"transcribe"}

\* voice-dump sections of document t that carry the marker of content c
SectionsOf(t, c) ==
  {i \in 1..Len(docs[t].body) :
     docs[t].body[i].kind = "Voice Dump" /\ docs[t].body[i].marker = c}

HasSection(t, c) == docs[t].exists /\ SectionsOf(t, c) # {}

\* C1: two processes running without force on the same content never both
\* hold the lease (be past the lease step, transform invoked or done), unless
\* the later of them took over a lease whose TTL had expired.
C1_AtMostOneLeaseWinner ==
  \A p, q \in Procs :
    ( /\ p # q
      /\ pc[p] \in PastLease /\ pc[q] \in PastLease
      /\ loc[p].sha = loc[q].sha
      /\ ~loc[p].force /\ ~loc[q].force )
    => (loc[p].why = "expired" \/ loc[q].why = "expired")

\* C2: without force, the documents together hold at most one voice-dump
\* section with the marker of a given content.
C2_AtMostOneSection ==
  \A c \in ContentIds :
    c \notin forced =>
      Cardinality({<<t, i>> \in Topics \X (1..(2 * MaxRuns)) :
                     i \in SectionsOf(t, c)}) <= 1

\* C3: once is_processed(c) is true it stays true, as long as no run on c
\* uses force.
C3_ProcessedIsPermanent ==
  [][\A c \in ContentIds :
       (is_processed(ledger, c) /\ c \notin forced')
         => is_processed(ledger', c)]_vars


\* a step of p's run other than its being killed
Moves(p) == pc'[p] # pc[p] /\ pc'[p] # "idle"

\* C4: a non-forced lease attempt on an in_progress entry leased at t0 is
\* refused, leaving the ledger unchanged, at every time t with
\* t - t0 <= ttl, and is allowed at every t with t - t0 > ttl; the lease it
\* then writes is in_progress with started_at the time of the write.
C4_LeaseTtl ==
  [][\A p \in Procs :
       LET c == loc[p].sha IN
       /\ ( /\ pc[p] = "check_retry" /\ Moves(p)
            /\ ~loc[p].force
            /\ ledger[c].status = "in_progress" )
          => IF now - ledger[c].started_at <= LeaseTtl
               THEN /\ pc'[p] = "returned"
                    /\ loc'[p].result = "None"
                    /\ ledger' = ledger
               ELSE pc'[p] = "lease"
       /\ (pc[p] = "lease" /\ Moves(p))
          => /\ ledger'[c].status = "in_progress"
             /\ ledger'[c].started_at = now]_vars

\* C4 witness: a run took over an in_progress entry after its TTL and holds
\* the fresh lease.
C4_Witness ==
  \E p \in Procs :
    /\ pc[p] = "transcribe" /\ ~loc[p].force
    /\ loc[p].why = "expired"
    /\ ledger[loc[p].sha].status = "in_progress"
    /\ ledger[loc[p].sha].started_at = now
    /\ now > LeaseTtl

\* C5: while an entry is processed, allow_retry_in_progress is false for
\* every ttl, and no run without force writes a lease over it.
C5_ProcessedRefusesLease ==
  [][\A p \in Procs :
       LET c == loc[p].sha IN
       (pc[p] = "lease" /\ Moves(p) /\ ~loc[p].force /\ c \notin forced)
         => /\ ~is_processed(ledger, c)
            /\ \A ttl \in 0..MaxTime :
                 is_processed(ledger', c)
                   => ~allow_retry_in_progress(ledger', c, ttl, now)]_vars

\* C6 as stated: lease_expired is true exactly when there is no entry, or
\* the status is not in_progress, or now - lease_started_at > ttl.
C6_LeaseExpiredAsStated ==
  \A c \in ContentIds, ttl \in 0..MaxTime :
    allow_retry_in_progress(ledger, c, ttl, now)
      <=> \/ ledger[c].status = "absent"
          \/ ledger[c].status # "in_progress"
          \/ now - ledger[c].started_at > ttl

\* C6 amended: lease_expired is true exactly when there is no entry, or the
\* status is failed, or the status is in_progress and the lease has no
\* start time or now - lease_started_at > ttl; it is false for a processed
\* entry and for an in_progress entry within its TTL.
C6_LeaseExpired ==
  \A c \in ContentIds, ttl \in 0..MaxTime :
    allow_retry_in_progress(ledger, c, ttl, now)
      <=> \/ ledger[c].status = "absent"
          \/ ledger[c].status = "failed"
          \/ /\ ledger[c].status = "in_progress"
             /\ \/ ledger[c].started_at = NullT
                \/ now - ledger[c].started_at > ttl

\* C6 witness: a processed entry, long after its lease was written
C6_Witness ==
  \E c \in ContentIds :
    /\ ledger[c].status = "processed"
    /\ now - ledger[c].started_at > LeaseTtl
    /\ ~allow_retry_in_progress(ledger, c, 0, now)


\* C7: a run without force on content that an earlier run completed is
\* skipped at the is_processed check: it returns no outcome, never reaches
\* the transform, and leaves the ledger and the documents as they were; the
\* destination document recorded for the content then holds exactly one
\* section with its marker (for a content no run was forced on).
C7_IdempotentReplay ==
  /\ [][\A p \in Procs :
          ( /\ pc[p] = "hashed" /\ Moves(p)
            /\ ~loc[p].force
            /\ ledger[loc[p].sha].status = "processed" )
          => /\ pc'[p] = "returned"
             /\ loc'[p].result = "None"
             /\ loc'[p].why = "processed"
             /\ loc'[p].transcript = Null
             /\ ledger' = ledger
             /\ docs' = docs]_vars
  /\ [](\A p \in Procs :
          ( /\ pc[p] = "returned" /\ loc[p].why = "processed"
            /\ loc[p].sha \notin forced )
          => /\ ledger[loc[p].sha].status = "processed"
             /\ ledger[loc[p].sha].topic_file \in Topics
             /\ Cardinality(SectionsOf(ledger[loc[p].sha].topic_file,
                                       loc[p].sha)) = 1)

\* C7 witness: the second of two runs in sequence was skipped, the first
\* having delivered the section and committed.
C7_Witness ==
  /\ runs = 2
  /\ pc["w1"] = "returned" /\ loc["w1"].why = "processed"
  /\ loc["w1"].result = "None"
  /\ loc["w1"].sha \notin forced
  /\ ledger["h1"].codex_status \in {"ok", "unavailable", "disabled"}
  /\ Cardinality(SectionsOf(ledger["h1"].topic_file, "h1")) = 1

\* C8: a run without force that finds the section of its content already in
\* the document it routed to (left there by a run that never committed)
\* appends nothing in any of its remaining steps, records the entry as
\* processed with codex_status "skipped" and returns an outcome.
C8_ReplayAfterLostCommit ==
  [][\A p \in Procs :
       LET c == loc[p].sha IN
       /\ ( /\ pc[p] = "check_notebook" /\ Moves(p)
            /\ ~loc[p].force
            /\ HasSection(loc[p].topic, c) )
          => pc'[p] = "dup_finalize" /\ docs' = docs
       /\ (pc[p] = "dup_finalize" /\ Moves(p))
          => pc'[p] = "dup_commit" /\ docs' = docs
       /\ (pc[p] = "dup_commit" /\ Moves(p))
          => /\ docs' = docs
             /\ ledger'[c].status = "processed"
             /\ ledger'[c].codex_status = "skipped"
             /\ ledger'[c].topic_file = loc[p].topic
             /\ pc'[p] = "returned"
             /\ loc'[p].result = "ProcessOutcome"
             /\ loc'[p].codex_status = "skipped"]_vars

\* C8 witness: a run that took over the expired lease returned through the
\* duplicate path; the run that appended the section was killed before its
\* commit.
C8_Witness ==
  \E p, q \in Procs :
    /\ p # q /\ pc[q] = "idle"
    /\ loc[p].sha \in lost
    /\ pc[p] = "returned" /\ loc[p].result = "ProcessOutcome"
    /\ ~loc[p].force /\ loc[p].why = "expired"
    /\ loc[p].codex_status = "skipped"
    /\ ledger[loc[p].sha].status = "processed"
    /\ ledger[loc[p].sha].codex_status = "skipped"
    /\ Cardinality(SectionsOf(loc[p].topic, loc[p].sha)) = 1

\* C9: whenever a run ends by raising TranscriptionError, the entry of its
\* content is failed with the error text stored, and the run has not
\* touched the documents.
C9_TranscriptionErrorMarksFailed ==
  [][\A p \in Procs :
       ( /\ pc[p] # "returned" /\ pc'[p] = "returned"
         /\ loc'[p].result = "TranscriptionError" )
       => /\ ledger'[loc[p].sha].status = "failed"
          /\ ledger'[loc[p].sha].error # Null
          /\ docs' = docs]_vars

\* C10: once the transform has returned text, the run ends only by
\* returning an outcome with the entry processed.
C10_OnlyTransformFailurePropagates ==
  [][\A p \in Procs :
       (pc[p] \in AfterTransform /\ pc'[p] = "returned")
       => /\ loc'[p].result = "ProcessOutcome"
          /\ ledger'[loc[p].sha].status = "processed"]_vars

\* the last block of document t
LastBlock(D, t) == D[t].body[Len(D[t].body)]

\* C11: when the annotation step fails with a CodexError (timeout without
\* output, missing binary, non-zero exit, empty output), the run appends
\* exactly one placeholder block, right after the voice-dump section it
\* appended, leaves every earlier block as it was, and goes on to commit
\* the entry as processed with codex_status "unavailable", returning an
\* outcome.
C11_AnnotationFailureDegrades ==
  [][\A p \in Procs :
       LET c == loc[p].sha
           t == loc[p].topic
       IN
       /\ ( /\ pc[p] = "codex" /\ Moves(p)
            /\ loc'[p].codex_status = "unavailable" )
          => /\ LastBlock(docs, t).kind = "Voice Dump"
             /\ LastBlock(docs, t).marker = c
             /\ Len(docs'[t].body) = Len(docs[t].body) + 1
             /\ \A i \in 1..Len(docs[t].body) : docs'[t].body[i] = docs[t].body[i]
             /\ LastBlock(docs', t).kind = "AI Commentary"
             /\ LastBlock(docs', t).marker = "placeholder"
             /\ \A u \in Topics \ {t} : docs'[u] = docs[u]
             /\ pc'[p] = "finalize"
       /\ ( /\ pc[p] \in {"finalize", "commit"} /\ Moves(p)
            /\ loc[p].codex_status = "unavailable" )
          => /\ docs' = docs
             /\ pc[p] = "finalize" => pc'[p] = "commit"
             /\ pc[p] = "commit"
                  => /\ pc'[p] = "returned"
                     /\ loc'[p].result = "ProcessOutcome"
                     /\ loc'[p].codex_status = "unavailable"
                     /\ ledger'[c].status = "processed"
                     /\ ledger'[c].codex_status = "unavailable"]_vars

\* C11 witness: a run returned after a failed annotation; its section is
\* followed by the placeholder and the entry is processed, "unavailable".
C11_Witness ==
  \E p \in Procs :
    LET t == loc[p].topic IN
    /\ pc[p] = "returned" /\ loc[p].result = "ProcessOutcome"
    /\ loc[p].codex_status = "unavailable"
    /\ ledger[loc[p].sha].status = "processed"
    /\ ledger[loc[p].sha].codex_status = "unavailable"
    /\ Len(docs[t].body) >= 2
    /\ LastBlock(docs, t).marker = "placeholder"
    /\ docs[t].body[Len(docs[t].body) - 1].kind = "Voice Dump"
    /\ docs[t].body[Len(docs[t].body) - 1].marker = loc[p].sha

\* C12: mark_processed merges: a field of an existing entry that holds a
\* value (archive_path, topic_file, codex_status, source_path, the
\* fingerprint) still holds one after any mark_processed call, so a call
\* that passes only codex_status erases neither topic_file nor archive_path.
C12_MarkProcessedMerges ==
  [][\A c \in ContentIds :
       (ledger[c].status # "absent" /\ ledger'[c].status = "processed")
       => /\ ledger[c].archive_path # NoPath => ledger'[c].archive_path # NoPath
          /\ ledger[c].topic_file # Null => ledger'[c].topic_file # Null
          /\ ledger[c].codex_status # Null => ledger'[c].codex_status # Null
          /\ ledger[c].source_path # Null => ledger'[c].source_path # Null
          /\ ledger[c].source_mtime_ns # NullT => ledger'[c].source_mtime_ns # NullT
          /\ ledger[c].source_size # NullT => ledger'[c].source_size # NullT]_vars

\* C13: in every ledger state, an entry has a completion time
\* (processed_at) exactly when its status is processed or failed; an entry
\* that went back to in_progress has none.
C13_CompletedAtIffDone ==
  \A c \in ContentIds :
    ledger[c].status # "absent"
      => (ledger[c].processed_at # NullT
            <=> ledger[c].status \in {"processed", "failed"})

\* the status changes the ledger is to allow without force
LegalTransitions ==
  {<<"absent", "in_progress">>, <<"in_progress", "in_progress">>,
   <<"in_progress", "processed">>, <<"in_progress", "failed">>,
   <<"failed", "in_progress">>}

\* C14: over any sequence of mark_in_progress, mark_processed and
\* mark_failed calls without force, on any content, an entry is created only
\* as in_progress and its status changes only in_progress -> processed,
\* in_progress -> failed or failed -> in_progress.
C14_LegalTransitions ==
  [][\A c \in ContentIds :
       (c \notin forced' /\ ledger'[c].status # ledger[c].status)
         => <<ledger[c].status, ledger'[c].status>> \in LegalTransitions]_vars

\* a lease on c that no live run holds
Orphaned(c) ==
  /\ ledger[c].status = "in_progress"
  /\ \A p \in Procs : pc[p] \in {"idle", "returned"}

\* C15: when the worker was killed while holding the lease for c, and the
\* watcher keeps cycling past the TTL with a transform that succeeds, the
\* entry of c becomes processed: no kill leaves it in_progress for ever.
C15_CrashRecovery ==
  \A c \in ContentIds : Orphaned(c) ~> is_processed(ledger, c)

\* C16: a run removes the original from the inbox only when the archive
\* path it recorded holds a copy of that file's bytes, also when the planned
\* name collides with a file already in the archive.
C16_RemovedOnlyWhenArchived ==
  [][\A p \in Procs :
       ( /\ pc[p] \in {"finalize", "dup_finalize"} /\ Moves(p)
         /\ inbox[loc[p].path] /\ ~inbox'[loc[p].path] )
       => /\ loc[p].archived_audio # NoPath
          /\ archive[loc[p].archived_audio[1]][loc[p].archived_audio[2]]
               = sha256_file(loc[p].path)]_vars

\* C17: when the archive copy fails the run goes on without an archive
\* reference: the failing step writes nothing to the archive, no later step
\* of the run removes the original, and the commit records the entry as
\* processed with archive_path null and returns an outcome without an
\* archive reference.
C17_ArchiveFailureContinues ==
  [][\A p \in Procs :
       LET c == loc[p].sha IN
       /\ ( /\ pc[p] = "archive" /\ Moves(p)
            /\ loc'[p].archived_audio = NoPath )
          => /\ archive' = archive /\ inbox' = inbox
             /\ pc'[p] = "check_notebook"
       /\ ( /\ pc[p] \in {"check_notebook", "append", "codex", "finalize",
                          "commit", "dup_finalize", "dup_commit"}
            /\ Moves(p)
            /\ loc[p].archived_audio = NoPath )
          => /\ inbox' = inbox /\ archive' = archive
             /\ loc'[p].archived_audio = NoPath
             /\ pc[p] \in {"commit", "dup_commit"}
                  => /\ pc'[p] = "returned"
                     /\ loc'[p].result = "ProcessOutcome"
                     /\ ledger'[c].status = "processed"
                     /\ ledger'[c].archive_path = NoPath]_vars

\* C17 witness: a run whose copy failed returned its outcome; the original
\* is still in the inbox, the archive is empty, the entry is processed
\* without an archive path.
C17_Witness ==
  \E p \in Procs :
    /\ pc[p] = "returned" /\ loc[p].result = "ProcessOutcome"
    /\ loc[p].archived_audio = NoPath
    /\ inbox[loc[p].path]
    /\ \A i \in Slots : archive[BaseName(loc[p].path)][i] = Null
    /\ ledger[loc[p].sha].status = "processed"
    /\ ledger[loc[p].sha].archive_path = NoPath

\* C18: with audio.archive_copy_enabled false no step of process_audio_file
\* writes to the archive, and neither the locals of a run nor the ledger
\* carry an archive path; with audio.delete_original_after_archive false no
\* step removes a file from the inbox.
C18_ArchivalGovernedByConfig ==
  [][/\ ~archive_copy_enabled
          => /\ archive' = archive
             /\ \A p \in Procs : loc'[p].archived_audio = NoPath
             /\ \A c \in ContentIds : ledger'[c].archive_path = NoPath
     /\ ~delete_original_after_archive
          => \A f \in Paths : inbox[f] => inbox'[f]]_vars

\* C19: a run without force on a content whose entry is failed is not
\* skipped: it writes the lease (in_progress, started_at the time of the
\* write, error cleared) and, the transform having succeeded, its commit
\* leaves the entry processed with no error.
C19_RetryAfterFailure ==
  [][\A p \in Procs :
       LET c == loc[p].sha IN
       /\ ( /\ pc[p] \in {"hashed", "check_retry"} /\ Moves(p)
            /\ ~loc[p].force
            /\ ledger[c].status = "failed" )
          => /\ pc[p] = "hashed" => pc'[p] = "check_retry"
             /\ pc[p] = "check_retry"
                  => pc'[p] = "lease" /\ loc'[p].why = "failed"
             /\ ledger' = ledger
       /\ (pc[p] = "lease" /\ Moves(p) /\ loc[p].why = "failed")
          => /\ pc'[p] = "transcribe"
             /\ ledger'[c].status = "in_progress"
             /\ ledger'[c].started_at = now
             /\ ledger'[c].error = Null
       /\ ( /\ pc[p] \in {"commit", "dup_commit"} /\ Moves(p)
            /\ loc[p].why = "failed" )
          => /\ pc'[p] = "returned"
             /\ loc'[p].result = "ProcessOutcome"
             /\ ledger'[c].status = "processed"
             /\ ledger'[c].error = Null]_vars

\* C19 witness: the second run, not forced, found the entry failed, wrote
\* its own lease and returned with the entry processed.
C19_Witness ==
  \E p \in Procs :
    /\ runs = 2
    /\ pc[p] = "returned" /\ loc[p].result = "ProcessOutcome"
    /\ ~loc[p].force /\ loc[p].why = "failed"
    /\ ledger[loc[p].sha].status = "processed"
    /\ ledger[loc[p].sha].error = Null
    /\ ledger[loc[p].sha].started_at > 0
    /\ HasSection(loc[p].topic, loc[p].sha)

\* C20: whenever the watcher is about to scan, its pre-filter drops a file
\* of the inbox only if the index holds the file's path and the file's
\* mtime_ns and size are those it had when a run on it last returned an
\* outcome; a file whose mtime_ns or size differs is passed on, also with an
\* index loaded from the ledger at a restart.
C20_PreFilterDropsOnlyUnchanged ==
  \A f \in Paths :
    ( /\ wpc = "sleep" /\ WatcherFree
      /\ inbox[f]
      /\ PreFilterDrops(snap, f, stat[f]) )
    => snap[f] # NoSnap /\ stat[f] = done_stat[f]

\* C30: started_at is non-null only while the status is in_progress: an
\* entry that mark_processed or mark_failed has written has no started_at.
C30_StartedAtOnlyInProgress ==
  \A c \in ContentIds :
    ledger[c].started_at # NullT => ledger[c].status = "in_progress"

\* C25: a file is in the stable list of a cycle only if the tracker has seen
\* it in the observe call before, with the size and mtime it has now, and
\* stable_seconds have passed since the tracker first saw it so; a file
\* whose size or mtime changed since the observe call before is not in the
\* list.
C25_StableOnlyAfterDebounce ==
  [][(wpc = "sleep" /\ wpc' = "cycle") =>
       \A i \in 1..Len(queue') :
         /\ seen[queue'[i]] # NoSeen
         /\ <<seen[queue'[i]][1], seen[queue'[i]][2]>> = stat[queue'[i]]
         /\ seen[queue'[i]][3] >= StableSeconds]_vars

\* a cycle whose stable list holds "b" alone: "a", saved anew since, has a
\* timer that starts again
C25_Witness ==
  /\ wpc = "cycle"
  /\ WatcherFree
  /\ queue = <<"b">>
  /\ stat["a"] # <<1, 1>>
  /\ seen["a"] = <<stat["a"][1], stat["a"][2], 0>>

\* C22: within one cycle process_audio_file is invoked on the paths of the
\* stable list in ascending order of st_mtime: the path of every invocation
\* is in the list, and no path still in the list, which are the paths
\* invoked later in the cycle, has a smaller st_mtime.
C22_AscendingMtimeOrder ==
  [][(WatcherFree /\ pc'["w1"] # "idle") =>
       /\ \E i \in 1..Len(queue) : queue[i] = loc'["w1"].path
       /\ \A i \in 1..Len(queue) :
            st_mtime(stat[loc'["w1"].path]) <= st_mtime(stat[queue[i]])]_vars

\* the first invocation of a cycle on two files, on the older one
C22_Witness ==
  /\ wpc = "cycle"
  /\ Len(queue) = 2
  /\ pc["w1"] = "hashed"
  /\ loc["w1"].path = queue[1]
  /\ st_mtime(stat[queue[1]]) < st_mtime(stat[queue[2]])

\* C23: the stable list of a cycle loses a path only when process_audio_file
\* on its first path has returned, with an outcome, with None or with an
\* exception, and then loses that path alone, which the tracker forgets; the
\* cycle ends only when the list is empty, and the watch loop goes on.
C23_EveryStableFileHandled ==
  [][/\ (wpc = "cycle" /\ queue' # queue) =>
          /\ pc["w1"] = "returned"
          /\ loc["w1"].result \in {"ProcessOutcome", "None", "TranscriptionError", "Exception"}
          /\ loc["w1"].path = Head(queue)
          /\ queue' = Tail(queue)
          /\ seen'[Head(queue)] = NoSeen
     /\ (wpc = "cycle" /\ wpc' # "cycle") => (queue' = <<>> /\ wpc' = "sleep")]_vars

\* "a" raised in this cycle, at this time, and the run on "b" has begun
C23_Witness ==
  /\ wpc = "cycle"
  /\ queue = <<"b">>
  /\ pc["w1"] = "hashed"
  /\ loc["w1"].path = "b"
  /\ seen["a"] = NoSeen
  /\ ledger["h1"].status = "failed"
  /\ ledger["h1"].source_path = "a"
  /\ ledger["h1"].processed_at = now
  /\ now < MaxTime

\* C24: a signal sets the stop flag and nothing else, so the run and the
\* cycle it arrives in go on step by step; with the flag set no further
\* cycle starts; run_forever returns in the end, and when it has returned no
\* path of a stable list is left and no run is under way.
C24_SignalLetsCycleFinish ==
  /\ [][(~stop /\ stop') =>
          UNCHANGED <<now, ledger, docs, inbox, archive, pc, loc, snap, queue, wpc, seen>>]_vars
  /\ [][(stop /\ wpc = "sleep") => (wpc' # "cycle" /\ snap' = snap /\ queue' = <<>>)]_vars
  /\ [](wpc = "stopped" => (queue = <<>> /\ WatcherFree))
  /\ (stop ~> wpc = "stopped")

\* with the signal received, a run of the cycle has returned its outcome and
\* the cycle has another path to go
C24_Witness ==
  /\ stop
  /\ wpc = "cycle"
  /\ Len(queue) = 2
  /\ pc["w1"] = "returned"
  /\ loc["w1"].result = "ProcessOutcome"

\* process_audio_file is under way on f
Offered(f) == pc["w1"] # "idle" /\ loc["w1"].path = f

\* f is in the inbox with mtime_ns and size st, which it did not have when a
\* run on it last returned an outcome, and with content that the ledger does
\* not hold as processed; a file saved anew has another mtime_ns or size
Waiting(f, st) ==
  /\ inbox[f]
  /\ stat[f] = st
  /\ done_stat[f] # st
  /\ ~is_processed(ledger, bytes[f])

\* C21: a file that stays in the inbox as it is, with content the ledger
\* does not hold as processed, is offered to process_audio_file in the end
\* by a watcher that keeps running its cycles, also when the file was saved
\* under the path of a file processed before, and after a restart.
C21_StableFilesEventuallyOffered ==
  \A f \in Paths : \A st \in Stats :
    Waiting(f, st) ~> (Offered(f) \/ ~Waiting(f, st))

\* C26: processed_source_snapshots has an entry for a path exactly when some
\* row with status processed has that source_path, and the entry is the
\* (source_mtime_ns, source_size) of such a row whose processed_at no other
\* such row exceeds.
C26_SnapshotsOfLatestProcessed ==
  \A f \in Paths :
    LET rows == {c \in ContentIds :
                   ledger[c].status = "processed" /\ ledger[c].source_path = f}
        entry == processed_source_snapshots(ledger)[f]
    IN /\ (entry = NoSnap) <=> (rows = {})
       /\ rows # {} =>
            \E c \in rows :
              /\ \A d \in rows : ledger[d].processed_at <= ledger[c].processed_at
              /\ entry = <<ledger[c].source_mtime_ns, ledger[c].source_size>>

\* two processed rows of path "a" that differ in processed_at and in their
\* fingerprint, and the entry is that of the later one
C26_Witness ==
  /\ ledger["h1"].status = "processed"
  /\ ledger["h2"].status = "processed"
  /\ ledger["h1"].source_path = "a"
  /\ ledger["h2"].source_path = "a"
  /\ ledger["h1"].processed_at < ledger["h2"].processed_at
  /\ ledger["h1"].source_mtime_ns # ledger["h2"].source_mtime_ns
  /\ processed_source_snapshots(ledger)["a"]
       = <<ledger["h2"].source_mtime_ns, ledger["h2"].source_size>>

\* C27: run_codex returns the text of the output file when the subprocess
\* timed out and the file holds text; it raises CodexError when the timeout
\* left no file or a file without text, when the command is not found, when
\* the exit status is not zero, and when the exit status is zero and there
\* is no file or no text in it.
C27_RunCodexOutcomes ==
  (ret # NoCall /\ call.enabled /\ call.command # <<>>) =>
    LET text == IF call.out = NoOutput THEN <<>> ELSE strip(call.out) IN
    /\ (call.run = "TimeoutExpired" /\ text # <<>>) => ret = CodexResult(text)
    /\ (call.run = "TimeoutExpired" /\ text = <<>>) => ret = CodexError
    /\ call.run = "FileNotFoundError" => ret = CodexError
    /\ call.run = "CalledProcessError" => ret = CodexError
    /\ (call.run = "ok" /\ text = <<>>) => ret = CodexError

\* a timeout that left text between blanks: the text is returned
C27_Witness ==
  /\ call.enabled
  /\ call.command # <<>>
  /\ call.run = "TimeoutExpired"
  /\ call.out = <<" ", "x">>
  /\ ret = CodexResult(<<"x">>)

\* C29: decide_route takes the TOPIC token of the transcript when there is
\* one, whatever the file name says; without a token the topic of the file
\* name; without either the inbox topic; and topic_source names the rule,
\* "transcript", "filename" or "fallback".
C29_RoutePriority ==
  ret # NoCall =>
    /\ call.explicit # Null =>
         (ret.topic = call.explicit /\ ret.topic_source = "transcript")
    /\ (call.explicit = Null /\ call.fn_topic # Null) =>
         (ret.topic = call.fn_topic /\ ret.topic_source = "filename")
    /\ (call.explicit = Null /\ call.fn_topic = Null) =>
         (ret.topic = "INBOX" /\ ret.topic_source = "fallback")
    /\ ret.topic_source \in {"transcript", "filename", "fallback"}

\* s is the beginning of t
IsPrefix(s, t) == Len(s) <= Len(t) /\ SubSeq(t, 1, Len(s)) = s

\* C28: every step of every run leaves each document that exists in
\* existence, with its content up to then as the beginning of its content
\* from then on.
C28_DocumentsAppendOnly ==
  [][\A t \in Topics :
       docs[t].exists => (docs'[t].exists /\ IsPrefix(docs[t].body, docs'[t].body))]_vars

\* C31: the steps of a run up to the test of the lease, which are all the
\* steps of a run without --force that is skipped because the lease is held
\* and not expired, change neither the ledger nor a document, the inbox or
\* the archive.
C31_SkippedRunChangesNothing ==
  [][\A p \in Procs :
       ( /\ pc[p] \in {"idle", "returned", "hashed", "check_retry"}
         /\ pc'[p] \in {"hashed", "check_retry", "returned"}
         /\ loc'[p] # loc[p] \/ pc'[p] # pc[p] )
       => UNCHANGED <<ledger, docs, inbox, archive>>]_vars

\* a run on "b" was skipped while the run of the other process on "a" holds
\* the lease of their content, not expired
C31_Witness ==
  /\ pc["w2"] = "returned"
  /\ loc["w2"].path = "b"
  /\ loc["w2"].why = "in_progress"
  /\ ~loc["w2"].force
  /\ pc["w1"] \in PastLease
  /\ loc["w1"].path = "a"
  /\ ledger["h1"].status = "in_progress"
  /\ ledger["h1"].source_path = "a"
  /\ now - ledger["h1"].started_at <= LeaseTtl
  /\ inbox["b"]

\* C32: a run on a path where no file is returns None at once, and its one
\* step changes neither the ledger nor a document, the archive or the inbox.
C32_VanishedFileChangesNothing ==
  [][\A p \in Procs : \A f \in Paths :
       ( /\ pc[p] \in {"idle", "returned"}
         /\ ~inbox[f]
         /\ loc'[p] # loc[p]
         /\ loc'[p].path = f )
       => /\ pc'[p] = "returned"
          /\ loc'[p].result = "None"
          /\ UNCHANGED <<ledger, docs, inbox, archive>>]_vars

\* a run on "a", whose file an earlier run has archived and removed
C32_Witness ==
  /\ pc["w2"] = "returned"
  /\ loc["w2"].path = "a"
  /\ loc["w2"].why = "vanished"
  /\ loc["w2"].result = "None"
  /\ ~inbox["a"]
  /\ ledger["h1"].status = "processed"

\* C33: a run with force on a file that is there is never skipped: from the
\* hash it goes through both tests of the ledger to the lease, whatever the
\* row says, and the lease step leaves the row in_progress with started_at
\* the time of the step and the run at the call of the transform.
C33_ForcedRunNeverSkipped ==
  [][\A p \in Procs :
       /\ ( /\ pc[p] \in {"idle", "returned"}
            /\ loc'[p] # loc[p]
            /\ loc'[p].force
            /\ inbox[loc'[p].path] )
          => pc'[p] = "hashed"
       /\ ( /\ loc[p].force
            /\ pc[p] \in {"hashed", "check_retry", "lease"}
            /\ pc'[p] # pc[p]
            /\ loc'[p] # NoRun )
          => /\ pc[p] = "hashed" => pc'[p] = "check_retry"
             /\ pc[p] = "check_retry" => pc'[p] = "lease"
             /\ pc[p] = "lease" =>
                  /\ pc'[p] = "transcribe"
                  /\ ledger'[loc[p].sha].status = "in_progress"
                  /\ ledger'[loc[p].sha].started_at = now
                  /\ ledger'[loc[p].sha].source_path = loc[p].path]_vars

\* a forced run at the transform that found the lease of a killed run unexpired
C33_Witness ==
  /\ pc["w1"] = "transcribe"
  /\ loc["w1"].force
  /\ loc["w1"].why = "forced"
  /\ ledger[loc["w1"].sha].status = "in_progress"
  /\ ledger[loc["w1"].sha].started_at = now

\* C34: the context a run hands to the annotation never holds the voice-dump
\* section that run has appended.
C34_ContextExcludesOwnSection ==
  \A p \in Procs :
    pc[p] = "codex_run" =>
      \A i \in 1..Len(loc[p].context) :
        ~( /\ loc[p].context[i].kind = "Voice Dump"
           /\ loc[p].context[i].marker = voice_dump_marker(loc[p].sha) )

\* C35: the markdown extract_context returns is never longer than max_chars.
C35_ContextWithinBudget ==
  ret # NoCall => ret.chars <= call.max_chars

\* C36: a file that a run of the watcher returned an outcome for, and that is
\* still in the inbox with the mtime_ns and size it had then, is not offered
\* to process_audio_file again by that watcher.
C36_ProcessedFileNotOfferedAgain ==
  [][\A f \in Paths :
       ( /\ pc["w1"] = "idle"
         /\ pc'["w1"] # "idle"
         /\ loc'["w1"].path = f )
       => ~(inbox[f] /\ done_stat[f] = stat[f])]_vars

\* "a", whose transform failed, is offered again in a later cycle, and "b",
\* processed after it and still there as it was, is not in the list
C36_Witness ==
  /\ wpc = "cycle"
  /\ queue = <<"a">>
  /\ pc["w1"] # "idle"
  /\ loc["w1"].path = "a"
  /\ stat["a"] = <<1, 1>>
  /\ ledger["h1"].status = "processed"
  /\ ledger["h1"].source_path = "b"
  /\ inbox["b"]
  /\ done_stat["b"] = stat["b"]

\* C37: a file whose run the watcher saw skipped as already processed, and
\* that is still in the inbox with the mtime_ns and size it had then, is not
\* offered to process_audio_file, and so not hashed, again by that watcher.
C37_SkippedFileNotHashedAgain ==
  [][\A f \in Paths :
       ( /\ pc["w1"] = "idle"
         /\ pc'["w1"] # "idle"
         /\ loc'["w1"].path = f )
       => ~(inbox[f] /\ skip_stat[f] = stat[f])]_vars

\* C38: with cfg.codex.enabled false, the step after the voice-dump section
\* was appended writes nothing and sets codex_status "disabled", no document
\* ever holds a commentary or a placeholder, and the run goes on to commit
\* the entry as processed with codex_status "disabled", returning an outcome
\* that says "disabled".
C38_DisabledAnnotationAppendsNothing ==
  [][\A p \in Procs :
       LET c == loc[p].sha
           t == loc[p].topic
       IN
       /\ (pc[p] = "codex" /\ Moves(p))
          => /\ LastBlock(docs, t).kind = "Voice Dump"
             /\ LastBlock(docs, t).marker = voice_dump_marker(c)
             /\ docs' = docs
             /\ loc'[p].codex_status = "disabled"
             /\ pc'[p] = "finalize"
       /\ (pc[p] \in {"finalize", "commit"} /\ Moves(p))
          => /\ docs' = docs
             /\ loc[p].codex_status = "disabled"
             /\ pc[p] = "finalize" => pc'[p] = "commit"
             /\ pc[p] = "commit"
                  => /\ pc'[p] = "returned"
                     /\ loc'[p].result = "ProcessOutcome"
                     /\ loc'[p].codex_status = "disabled"
                     /\ ledger'[c].status = "processed"
                     /\ ledger'[c].codex_status = "disabled"
       /\ \A u \in Topics : \A i \in 1..Len(docs'[u].body) :
            docs'[u].body[i].kind = "Voice Dump"]_vars

\* a run has returned its outcome: its section ends the document and the
\* entry is processed, "disabled"
C38_Witness ==
  /\ pc["w1"] = "returned"
  /\ loc["w1"].result = "ProcessOutcome"
  /\ loc["w1"].codex_status = "disabled"
  /\ ledger[loc["w1"].sha].status = "processed"
  /\ ledger[loc["w1"].sha].codex_status = "disabled"
  /\ LastBlock(docs, loc["w1"].topic).kind = "Voice Dump"
  /\ LastBlock(docs, loc["w1"].topic).marker = voice_dump_marker(loc["w1"].sha)

\* C40: however often a run on a file is killed and replayed without force,
\* the archive holds at most one copy of the file.
C40_AtMostOneArchiveCopy ==
  \A n \in Names : \A c \in ContentIds :
    Cardinality({i \in Slots : archive[n][i] = c}) <= 1

\* C39: after a rerun-codex that appended a commentary and exited with 0, a
\* rerun-codex without --force on the same file leaves the file as it is.
C39_RerunCodexIdempotent ==
  [][( /\ ret.kind = "exit" /\ ret.code = 0 /\ ret.appended
       /\ runs' = runs + 1
       /\ ~call'.force )
     => docs' = docs]_vars

====
